---- MODULE Spec2Model ----
(***************************************************************************)
(* A model of the "central" configuration library: the configuration       *)
(* hierarchy of src/central/config/core.py (BaseConfig, BaseDataConfig,    *)
(* ChainConfig, MemoryConfig, MergeConfig, PrefixedConfig, ReloadConfig,   *)
(* the loading sources), the S3 source of src/configd/config/s3.py and the *)
(* EventHandler of src/configd/utils.py.                                   *)
(*                                                                         *)
(* Strings are sequences of one-character strings, so that splitting a key *)
(* on the nested delimiter, case folding and variable references are       *)
(* computed and not assumed.  Values are tagged records.  Configs are      *)
(* objects of a small heap, named by the naturals 1..MaxConfigs.           *)
(***************************************************************************)
EXTENDS Integers, Sequences, FiniteSets, TLC

VARIABLES
    kind,       \* config id -> the class of the object ("none": not constructed)
    kids,       \* config id -> the sequence of its children (_configs / _config)
    prefix,     \* config id -> PrefixedConfig._prefix_delimited
    data,       \* config id -> BaseDataConfig._data
    lookup,     \* config id -> BaseConfig._lookup (an object identity)
    callbacks,  \* config id -> EventHandler._callbacks of BaseConfig._updated
    fired,      \* config id -> how many times its updated event was invoked
    serial,     \* the number of lookup objects created so far
    loaded,     \* config id -> ReloadConfig._loaded
    stats,      \* counters of what the scheduler and the delegate were asked
    op,         \* the last operation: its name, arguments and outcome
    rd          \* a reader thread that is inside BaseDataConfig.get_raw

vars == <<kind, kids, prefix, data, lookup, callbacks, fired, serial, loaded, stats, op, rd>>

-----------------------------------------------------------------------------
(* Bounds of the model.                                                    *)

MaxKids == 2
MaxFuel == 3

-----------------------------------------------------------------------------
(* Strings.                                                                *)

NESTED_DELIMITER == "."

sx == <<"x">>
sy == <<"y">>
sa == <<"a">>
sb == <<"b">>
sp == <<"p">>
sq == <<"q">>
sX == <<"X">>
sab == <<"a", ".", "b">>
sh == <<"h">>
sRefY == <<"$", "{", "y", "}">>
sRefZ == <<"$", "{", "z", "}">>

\* str.lower() on one character, for the letters the model uses.
LowerChar(ch) ==
    CASE ch = "A" -> "a"
      [] ch = "B" -> "b"
      [] ch = "X" -> "x"
      [] ch = "Y" -> "y"
      [] OTHER -> ch

Lower(s) == [i \in DOMAIN s |-> LowerChar(s[i])]

\* str.find(ch, from): the least index >= from holding ch, 0 when there is none.
IndexOf(s, ch, from) ==
    LET hits == {i \in from..Len(s) : s[i] = ch}
    IN  IF hits = {} THEN 0 ELSE CHOOSE i \in hits : \A j \in hits : i <= j

\* str.split(ch)
RECURSIVE Split(_, _)
Split(s, ch) ==
    LET i == IndexOf(s, ch, 1)
    IN  IF i = 0 THEN <<s>>
        ELSE <<SubSeq(s, 1, i - 1)>> \o Split(SubSeq(s, i + 1, Len(s)), ch)

-----------------------------------------------------------------------------
(* Values.  None is Python's None: "absent".                               *)

None == [t |-> "none"]
IntV(n) == [t |-> "int", v |-> n]
BoolV(b) == [t |-> "bool", v |-> b]
StrV(s) == [t |-> "str", v |-> s]
ListV(l) == [t |-> "list", v |-> l]
\* An IgnoreCaseDict: a function from the stored keys (in their original
\* casing, no two equal ignoring case) to the values.
MapV(f) == [t |-> "map", v |-> f]
\* A plain dict: the sequence of its <<key, value>> items in insertion order.
DictV(items) == [t |-> "dict", v |-> items]
\* A raised exception, as the outcome of an operation.
Err(e) == [t |-> "error", v |-> e]
\* A zero-argument callable returning r (a lazily evaluated default).
Callable(r) == [t |-> "callable", v |-> r]

IsErr(x) == x.t = "error"
IsMapping(x) == x.t \in {"map", "dict"}
IsStr(x) == x.t = "str"

EmptyF == [k \in {} |-> None]
F1(k, v) == [z \in {k} |-> v]
F2(k1, v1, k2, v2) == [z \in {k1, k2} |-> IF z = k1 THEN v1 ELSE v2]

\* The stored keys of IgnoreCaseDict m that key addresses (at most one).
StoredKeys(m, key) == {s \in DOMAIN m.v : Lower(s) = Lower(key)}

\* Mapping.get(key): the value, None when the key is missing.
MapGet(m, key) ==
    IF m.t = "map"
    THEN IF StoredKeys(m, key) = {} THEN None
         ELSE m.v[CHOOSE s \in StoredKeys(m, key) : TRUE]
    ELSE LET hits == {i \in DOMAIN m.v : m.v[i][1] = key}
         IN  IF hits = {} THEN None ELSE m.v[CHOOSE i \in hits : TRUE][2]

\* The keys a mapping iterates.
MapKeys(m) ==
    IF m.t = "map" THEN DOMAIN m.v ELSE {m.v[i][1] : i \in DOMAIN m.v}

\* m[key] = value.  In an IgnoreCaseDict an existing entry keeps the casing it
\* was first inserted with.
MapSet(m, key, value) ==
    IF m.t = "map"
    THEN LET s == IF StoredKeys(m, key) = {} THEN key
                  ELSE CHOOSE z \in StoredKeys(m, key) : TRUE
         IN  MapV([z \in DOMAIN m.v \cup {s} |-> IF z = s THEN value ELSE m.v[z]])
    ELSE LET hits == {i \in DOMAIN m.v : m.v[i][1] = key}
         IN  IF hits = {} THEN DictV(Append(m.v, <<key, value>>))
             ELSE DictV([i \in DOMAIN m.v |-> IF i \in hits THEN <<key, value>> ELSE m.v[i]])

\* make_ignore_case(value): a mapping becomes an IgnoreCaseDict, recursively;
\* the items of a plain dict are inserted in their order, so of two keys equal
\* ignoring case the later one overwrites the value of the earlier one.
RECURSIVE make_ignore_case(_)
RECURSIVE IgnoreCaseFrom(_, _, _)
IgnoreCaseFrom(items, i, acc) ==
    IF i > Len(items) THEN acc
    ELSE IgnoreCaseFrom(items, i + 1,
                        MapSet(acc, items[i][1], make_ignore_case(items[i][2])))
make_ignore_case(value) ==
    IF value.t = "dict" THEN IgnoreCaseFrom(value.v, 1, MapV(EmptyF))
    ELSE IF value.t = "map"
         THEN MapV([k \in DOMAIN value.v |-> make_ignore_case(value.v[k])])
         ELSE value

\* Python's == on two values: mappings are equal when they hold the same
\* items, whatever their class and order.
RECURSIVE PyEq(_, _)
PyEq(a, b) ==
    IF IsMapping(a) /\ IsMapping(b)
    THEN /\ MapKeys(a) = MapKeys(b)
         /\ \A k \in MapKeys(a) :
              LET va == IF a.t = "map" THEN a.v[k] ELSE MapGet(a, k)
                  vb == IF b.t = "map" THEN b.v[k] ELSE MapGet(b, k)
              IN  PyEq(va, vb)
    ELSE a = b

-----------------------------------------------------------------------------
(* The classes of the hierarchy.                                           *)

DataKinds == {"memory", "merge", "commandline", "file", "url", "s3"}

\* A ConfigLookup(owner): the n-th lookup object created.
ConfigLookup(owner, n) == [type |-> "config", owner |-> owner, id |-> n]
\* A lookup object the application supplies (such as an EnvironmentLookup).
EnvironmentLookup(n) == [type |-> "env", owner |-> 0, id |-> n]
\* A ChainLookup over the lookup objects of a sequence.
ChainLookup(lookups) == [type |-> "chain", owner |-> 0, id |-> 0, lookups |-> lookups]
\* The process environment the model runs in holds no variable.
EnvironmentGet(name) == None

\* Decoder.decode(value, str) on a scalar.
ToStr(value) ==
    CASE value.t = "str" -> value
      [] value.t = "int" -> StrV(<<CASE value.v = 0 -> "0" [] value.v = 1 -> "1"
                                     [] value.v = 2 -> "2" [] value.v = 5 -> "5"
                                     [] value.v = 7 -> "7" [] OTHER -> "9">>)
      [] value.t = "bool" -> StrV(IF value.v THEN <<"T", "r", "u", "e">>
                                  ELSE <<"F", "a", "l", "s", "e">>)
      [] OTHER -> Err("decode")

\* The type a typed getter asks for that is the native type of value.
NativeType(value) ==
    CASE value.t = "map" -> "dict"
      [] value.t = "dict" -> "dict"
      [] OTHER -> value.t

\* Decoder.decode(value, type): a value of the requested type is returned as
\* it is, any scalar converts to str, every other conversion fails.
Decode(value, type) ==
    IF NativeType(value) = type THEN value
    ELSE IF type = "str" THEN ToStr(value)
    ELSE Err("decode")

\* A walk that hands back a value that is not a mapping instead of stopping.
RECURSIVE WalkKeepsLeaf(_, _, _)
WalkKeepsLeaf(value, paths, i) ==
    IF i > Len(paths) THEN value
    ELSE IF value = None THEN None
    ELSE IF ~IsMapping(value) THEN value
    ELSE WalkKeepsLeaf(MapGet(value, paths[i]), paths, i + 1)

\* The loop of get_raw over paths[1:], value being what paths[0] gave.
RECURSIVE Walk(_, _, _)
Walk(value, paths, i) ==
    IF i > Len(paths) THEN value
    ELSE IF value = None THEN None
    ELSE IF ~IsMapping(value) THEN None
    ELSE Walk(MapGet(value, paths[i]), paths, i + 1)

\* A get_raw that walks the nested mappings before it tries the whole key.
BaseGetRawNestedFirst(m, key) ==
    LET paths == Split(key, NESTED_DELIMITER)
        nested == Walk(MapGet(m, paths[1]), paths, 2)
    IN  IF nested # None THEN nested ELSE MapGet(m, key)

\* BaseDataConfig.get_raw on the backing mapping m.
BaseGetRaw(m, key) ==
    LET value == MapGet(m, key)
        paths == Split(key, NESTED_DELIMITER)
    IN  IF value # None THEN value
        ELSE IF key = paths[1] THEN None
        ELSE Walk(MapGet(m, paths[1]), paths, 2)

\* get_raw(key) of config c, the backing data of every config being d.
RECURSIVE GetRaw(_, _, _)
RECURSIVE ChainGetRaw(_, _, _, _)
\* A ChainConfig.get_raw that searches the children in their own order.
RECURSIVE ChainGetRawFrom(_, _, _, _)
ChainGetRawFrom(c, i, key, d) ==
    IF i > Len(kids[c]) THEN None
    ELSE LET value == GetRaw(kids[c][i], key, d)
         IN  IF value # None THEN value ELSE ChainGetRawFrom(c, i + 1, key, d)
ChainGetRawFirstWins(c, i, key, d) == ChainGetRawFrom(c, 1, key, d)
\* ChainConfig.get_raw's loop over reversed(self._configs), at position i.
ChainGetRaw(c, i, key, d) ==
    IF i = 0 THEN None
    ELSE LET value == GetRaw(kids[c][i], key, d)
         IN  IF value # None THEN value ELSE ChainGetRaw(c, i - 1, key, d)
GetRaw(c, key, d) ==
    CASE kind[c] \in DataKinds -> BaseGetRaw(d[c], key)
      [] kind[c] = "chain" -> ChainGetRaw(c, Len(kids[c]), key, d)
      [] kind[c] = "prefixed" -> GetRaw(kids[c][1], prefix[c] \o key, d)
      [] kind[c] = "reload" -> GetRaw(kids[c][1], key, d)

\* StrLookup.lookup(name) of lookup object lk: a ConfigLookup answers with its
\* config's raw value as a string, an EnvironmentLookup with the variable.
RECURSIVE LookupStr(_, _, _)
\* ChainLookup(*lookups).lookup(name): the first answer that is not None.
RECURSIVE ChainLookupStr(_, _, _, _)
ChainLookupStr(lookups, i, name, d) ==
    IF i > Len(lookups) THEN None
    ELSE LET found == LookupStr(lookups[i], name, d)
         IN  IF found # None THEN found ELSE ChainLookupStr(lookups, i + 1, name, d)
LookupStr(lk, name, d) ==
    IF lk.type = "env" THEN EnvironmentGet(name)
    ELSE IF lk.type = "chain" THEN ChainLookupStr(lk.lookups, 1, name, d)
    ELSE LET raw == GetRaw(lk.owner, name, d)
         IN  IF raw = None THEN None ELSE ToStr(raw)

\* BashInterpolator.resolve(s, lookup): every ${name} is replaced by what the
\* lookup gives for name, again and again until no reference is left; a name
\* the lookup does not know is an error.
RECURSIVE Resolve(_, _, _, _)
Resolve(s, lk, d, fuel) ==
    LET opens == {i \in 1..(Len(s) - 1) : s[i] = "$" /\ s[i + 1] = "{"}
        i == CHOOSE z \in opens : \A w \in opens : z <= w
        j == IndexOf(s, "}", i + 2)
        found == LookupStr(lk, SubSeq(s, i + 2, j - 1), d)
    IN  IF opens = {} THEN StrV(s)
        ELSE IF j = 0 THEN StrV(s)
        ELSE IF found = None THEN Err("lookup")
        ELSE IF IsErr(found) THEN found
        ELSE IF fuel = 0 THEN Err("recursion")
        ELSE Resolve(SubSeq(s, 1, i - 1) \o found.v \o SubSeq(s, j + 1, Len(s)),
                     lk, d, fuel - 1)

\* A default that is callable is called.
EvalDefault(default) == IF default.t = "callable" THEN default.v ELSE default

\* BaseDataConfig.get_value
BaseGetValue(c, key, type, default, d) ==
    LET raw == GetRaw(c, key, d)
        value == IF IsStr(raw) THEN Resolve(raw.v, lookup[c], d, MaxFuel) ELSE raw
    IN  IF raw = None THEN EvalDefault(default)
        ELSE IF IsErr(value) THEN value
        ELSE IF type = "object" THEN value
        ELSE Decode(value, type)

\* get_value(key, type, default) of config c.
RECURSIVE GetValue(_, _, _, _, _)
RECURSIVE ChainGetValue(_, _, _, _, _, _)
\* ChainConfig.get_value's loop over reversed(self._configs), at position i.
ChainGetValue(c, i, key, type, default, d) ==
    IF i = 0 THEN EvalDefault(default)
    ELSE LET value == GetValue(kids[c][i], key, type, None, d)
         IN  IF value # None THEN value
             ELSE ChainGetValue(c, i - 1, key, type, default, d)
GetValue(c, key, type, default, d) ==
    CASE kind[c] \in DataKinds -> BaseGetValue(c, key, type, default, d)
      [] kind[c] = "chain" -> ChainGetValue(c, Len(kids[c]), key, type, default, d)
      [] kind[c] = "prefixed" -> GetValue(kids[c][1], prefix[c] \o key, type, default, d)
      [] kind[c] = "reload" -> GetValue(kids[c][1], key, type, default, d)

-----------------------------------------------------------------------------
(* Construction.  A heap h is a record of the fields of every config; the  *)
(* constructors and the lookup setter map a heap to the heap they leave.   *)

Heap ==
    [kind |-> kind, kids |-> kids, prefix |-> prefix, data |-> data,
     lookup |-> lookup, callbacks |-> callbacks, serial |-> serial,
     loaded |-> loaded]

\* A heap of n objects, none of them constructed.
EmptyHeap(n) ==
    [kind |-> [c \in 1..n |-> "none"], kids |-> [c \in 1..n |-> <<>>],
     prefix |-> [c \in 1..n |-> <<>>], data |-> [c \in 1..n |-> MapV(EmptyF)],
     lookup |-> [c \in 1..n |-> None], callbacks |-> [c \in 1..n |-> <<>>],
     serial |-> 0, loaded |-> [c \in 1..n |-> FALSE]]

\* The callback a composite adds to a child's updated event: the bound method
\* parent._config_updated.
ConfigUpdated(parent) == [type |-> "config_updated", owner |-> parent]

\* BaseConfig.__init__ (and BaseDataConfig.__init__): a lookup of its own, an
\* event without callbacks, empty backing data.
BaseInit(h, c, k) ==
    [h EXCEPT !.kind[c] = k,
              !.lookup[c] = ConfigLookup(c, h.serial + 1),
              !.serial = h.serial + 1,
              !.callbacks[c] = <<>>,
              !.data[c] = MapV(EmptyF)]

\* MemoryConfig.__init__(data)
MemoryInit(h, c, initial) ==
    LET b == BaseInit(h, c, "memory")
    IN  IF initial = None THEN b ELSE [b EXCEPT !.data[c] = make_ignore_case(initial)]

\* Which classes override _lookup_changed to hand the lookup to their children.
PropagatesLookup(k) == k \in {"chain", "prefixed", "reload"}

\* BaseConfig.lookup's setter followed by the class's _lookup_changed: value is
\* a lookup object, or None for a fresh ConfigLookup(self).
RECURSIVE LookupSet(_, _, _)
RECURSIVE LookupSetAll(_, _, _, _)
LookupSetAll(h, configs, i, value) ==
    IF i > Len(configs) THEN h
    ELSE LookupSetAll(LookupSet(h, configs[i], value), configs, i + 1, value)
LookupSet(h, c, value) ==
    LET new == IF value = None THEN ConfigLookup(c, h.serial + 1) ELSE value
        h1 == [h EXCEPT !.lookup[c] = new,
                        !.serial = IF value = None THEN h.serial + 1 ELSE h.serial]
    IN  IF PropagatesLookup(h.kind[c]) THEN LookupSetAll(h1, h.kids[c], 1, new)
        ELSE h1

\* A constructor loop that hands over the lookup and adds no callback.
RECURSIVE AdoptNoSubscribe(_, _, _, _)
AdoptNoSubscribe(h, c, configs, i) ==
    IF i > Len(configs) THEN h
    ELSE AdoptNoSubscribe(LookupSet(h, configs[i], h.lookup[c]), c, configs, i + 1)

\* The loop of ChainConfig.__init__ and MergeConfig.__init__ over the configs:
\* config.lookup = self._lookup; config.updated.add(self._config_updated).
RECURSIVE Adopt(_, _, _, _)
Adopt(h, c, configs, i) ==
    IF i > Len(configs) THEN h
    ELSE LET h1 == LookupSet(h, configs[i], h.lookup[c])
             h2 == [h1 EXCEPT !.callbacks[configs[i]] = Append(@, ConfigUpdated(c))]
         IN  Adopt(h2, c, configs, i + 1)

\* ChainConfig.__init__(*configs)
ChainInit(h, c, configs) ==
    [Adopt(BaseInit(h, c, "chain"), c, configs, 1) EXCEPT !.kids[c] = configs]

\* MergeConfig.__init__(*configs)
MergeInit(h, c, configs) ==
    [Adopt(BaseInit(h, c, "merge"), c, configs, 1) EXCEPT !.kids[c] = configs]

\* PrefixedConfig.__init__(prefix, config): the prefix is kept delimited.
PrefixedInit(h, c, pfx, config) ==
    LET b == BaseInit(h, c, "prefixed")
        delimited == IF Len(pfx) > 0 /\ pfx[Len(pfx)] = NESTED_DELIMITER THEN pfx
                     ELSE Append(pfx, NESTED_DELIMITER)
        b1 == [b EXCEPT !.prefix[c] = delimited, !.kids[c] = <<config>>]
    IN  LookupSet(b1, config, b1.lookup[c])

\* ReloadConfig.__init__(config, scheduler)
ReloadInit(h, c, config) ==
    LET b == BaseInit(h, c, "reload")
        b1 == [b EXCEPT !.kids[c] = <<config>>, !.loaded[c] = FALSE]
    IN  LookupSet(b1, config, b1.lookup[c])

\* The variables take the fields of heap h.
HeapIs(h) ==
    /\ kind = h.kind /\ kids = h.kids /\ prefix = h.prefix /\ data = h.data
    /\ lookup = h.lookup /\ callbacks = h.callbacks /\ serial = h.serial
    /\ loaded = h.loaded

HeapBecomes(h) ==
    /\ kind' = h.kind /\ kids' = h.kids /\ prefix' = h.prefix /\ data' = h.data
    /\ lookup' = h.lookup /\ callbacks' = h.callbacks /\ serial' = h.serial
    /\ loaded' = h.loaded

heapVars == <<kind, kids, prefix, data, lookup, callbacks, serial, loaded>>

NoStats == [none |-> 0]
NoOp == [name |-> "none"]
NoReader == [pc |-> "idle"]

-----------------------------------------------------------------------------
(* The updated event and MemoryConfig.set.                                 *)

\* A callback the application adds with on_updated: when called it reads
\* get_raw of the config it was added to, and it raises when fails is TRUE.
Observer(n, fails) == [type |-> "observer", owner |-> n, fails |-> fails]

\* EventHandler.__call__ on the updated event of config c, for an operation
\* on key, the backing data being d: every callback is called in the order
\* of addition; the first one to raise ends the call.  acc carries the count
\* of invocations of every event, what the observers saw, and whether an
\* exception is propagating.
RECURSIVE Fire(_, _, _, _)
RECURSIVE RunCallbacks(_, _, _, _, _)
RunCallbacks(c, i, key, d, acc) ==
    IF i > Len(callbacks[c]) \/ acc.raised THEN acc
    ELSE LET cb == callbacks[c][i]
             next == IF cb.type = "config_updated"
                     \* ChainConfig._config_updated / MergeConfig._config_updated
                     THEN Fire(cb.owner, key, d, acc)
                     ELSE [acc EXCEPT !.seen = Append(@, [at |-> c, value |-> GetRaw(c, key, d)]),
                                      !.raised = cb.fails]
         IN  RunCallbacks(c, i + 1, key, d, next)
Fire(c, key, d, acc) ==
    RunCallbacks(c, 1, key, d, [acc EXCEPT !.fired[c] = @ + 1])

\* A MemoryConfig.set that notifies before it stores.
MemorySetNotifyFirst(c, key, value) ==
    LET stored == IF IsMapping(value) THEN make_ignore_case(value) ELSE value
    IN  [data |-> [data EXCEPT ![c] = MapSet(@, key, stored)],
         out |-> Fire(c, key, data, [fired |-> fired, seen |-> <<>>, raised |-> FALSE])]

\* MemoryConfig.set(key, value): the data it leaves and the outcome of the
\* event it fires.
MemorySet(c, key, value) ==
    LET stored == IF IsMapping(value) THEN make_ignore_case(value) ELSE value
        d == [data EXCEPT ![c] = MapSet(@, key, stored)]
    IN  [data |-> d,
         out |-> Fire(c, key, d, [fired |-> fired, seen |-> <<>>, raised |-> FALSE])]

-----------------------------------------------------------------------------
(* MergeConfig.                                                            *)

\* The keys config c iterates (data sources: the top-level keys).
Iterate(c, d) == MapKeys(d[c])

\* MergeConfig._RawConfig(config): the raw view of a child as a mapping.
RawConfig(c, d) == MapV([k \in Iterate(c, d) |-> GetRaw(c, k, d)])

\* merge_dict(target, source) for one source: per key of the source, two
\* mappings are merged recursively, anything else overwrites the target's.
RECURSIVE MergeOne(_, _)
RECURSIVE MergeKeys(_, _, _)
MergeKeys(target, source, todo) ==
    IF todo = {} THEN target
    ELSE LET key == CHOOSE k \in todo : TRUE
             tv == MapGet(target, key)
             sv == MapGet(source, key)
             merged == IF IsMapping(tv) /\ IsMapping(sv) THEN MergeOne(tv, sv) ELSE sv
         IN  MergeKeys(MapSet(target, key, merged), source, todo \ {key})
MergeOne(target, source) == MergeKeys(target, source, MapKeys(source))

\* merge_dict(target, *sources)
RECURSIVE merge_dict(_, _)
merge_dict(target, sources) ==
    IF sources = <<>> THEN target
    ELSE merge_dict(MergeOne(target, Head(sources)), Tail(sources))

\* A MergeConfig.load that merges the children from the last to the first.
MergeLoadReversed(c, d) ==
    IF Len(kids[c]) = 0 THEN d
    ELSE [d EXCEPT ![c] = merge_dict(MapV(EmptyF),
             [i \in 1..Len(kids[c]) |-> RawConfig(kids[c][Len(kids[c]) + 1 - i], d)])]

\* MergeConfig.load over MemoryConfig children (whose load does nothing): the
\* backing data of every config afterwards.
MergeLoad(c, d) ==
    IF Len(kids[c]) = 0 THEN d
    ELSE [d EXCEPT ![c] = merge_dict(MapV(EmptyF),
             [i \in 1..Len(kids[c]) |-> RawConfig(kids[c][i], d)])]

-----------------------------------------------------------------------------
(* ChainConfig over MemoryConfig children: reads.                          *)

Dict1(k, v) == DictV(<< <<k, v>> >>)
Dict2(k1, v1, k2, v2) == DictV(<< <<k1, v1>>, <<k2, v2>> >>)

\* The initial data the children of the chain are constructed with.
ChainData ==
    { DictV(<<>>), Dict1(sx, IntV(1)), Dict1(sx, IntV(2)), Dict1(sy, StrV(sh)),
      Dict1(sa, Dict1(sb, IntV(5))), Dict1(sab, IntV(7)), Dict1(sX, IntV(0)),
      Dict1(sx, StrV(sRefY)), Dict1(sx, StrV(sRefZ)) }

ChainKeys == {sx, sy, sab, sX}
ChainTypes == {"object", "int", "str"}
ChainDefaults == {None, IntV(9), Callable(IntV(9))}

\* MemoryConfig(ds[1]), ..., MemoryConfig(ds[n]) constructed as objects 1..n.
RECURSIVE WithMemories(_, _, _)
WithMemories(h, ds, i) ==
    IF i > Len(ds) THEN h
    ELSE WithMemories(MemoryInit(h, i, ds[i]), ds, i + 1)

\* ChainConfig(MemoryConfig(ds[1]), ..., MemoryConfig(ds[n])) as object n + 1.
ChainOver(ds) ==
    ChainInit(WithMemories(EmptyHeap(Len(ds) + 1), ds, 1), Len(ds) + 1,
              [i \in 1..Len(ds) |-> i])

ChainSpecInit ==
    /\ \E n \in 0..MaxKids : \E ds \in [1..n -> ChainData] : HeapIs(ChainOver(ds))
    /\ fired = [c \in DOMAIN kind |-> 0]
    /\ stats = NoStats
    /\ op = NoOp
    /\ rd = NoReader

\* config.get_raw(key) is called on the chain.  A read changes nothing, so
\* one read per behaviour shows every outcome.
ChainReadRaw ==
    \E c \in DOMAIN kind : \E key \in ChainKeys :
        /\ kind[c] = "chain"
        /\ op = NoOp
        /\ op' = [name |-> "get_raw", c |-> c, key |-> key,
                  result |-> GetRaw(c, key, data)]
        /\ UNCHANGED <<heapVars, fired, stats, rd>>

\* config.get_value(key, type, default) is called on the chain.
ChainReadValue ==
    \E c \in DOMAIN kind : \E key \in ChainKeys :
      \E type \in ChainTypes : \E default \in ChainDefaults :
        /\ kind[c] = "chain"
        /\ op = NoOp
        /\ op' = [name |-> "get_value", c |-> c, key |-> key, type |-> type,
                  default |-> default,
                  result |-> GetValue(c, key, type, default, data)]
        /\ UNCHANGED <<heapVars, fired, stats, rd>>

ChainNext == ChainReadRaw \/ ChainReadValue

SpecChain == ChainSpecInit /\ [][ChainNext]_vars

\* The greatest element of a non-empty set of numbers.
Max(S) == CHOOSE i \in S : \A j \in S : j <= i

\* The children of the chain that hold the key the last read asked for: their
\* own get_raw, resp. get_value without a default, is not None.
RawHolders == {i \in 1..Len(kids[op.c]) : GetRaw(kids[op.c][i], op.key, data) # None}
ValueHolders ==
    {i \in 1..Len(kids[op.c]) : GetValue(kids[op.c][i], op.key, op.type, None, data) # None}

\* C1: a read of a ChainConfig returns the result of the last child (highest
\* index) whose own result for the key is not absent, so an earlier child's
\* value only when every later child is absent, and None (get_raw) or the
\* default, called when callable (get_value), only when every child is absent.
C1_ChainLastChildWins ==
    /\ op.name = "get_raw" =>
         op.result = IF RawHolders = {} THEN None
                     ELSE GetRaw(kids[op.c][Max(RawHolders)], op.key, data)
    /\ op.name = "get_value" =>
         op.result = IF ValueHolders = {}
                     THEN (IF op.default.t = "callable" THEN op.default.v ELSE op.default)
                     ELSE GetValue(kids[op.c][Max(ValueHolders)], op.key, op.type, None, data)

\* Two children hold different values for the key and the read gave the last
\* one's; or only the first child holds the key and the read gave the first's.
C1_Witness ==
    /\ op.name = "get_value"
    /\ Len(kids[op.c]) = 2
    /\ ValueHolders = {1, 2}
    /\ GetValue(1, op.key, op.type, None, data) # GetValue(2, op.key, op.type, None, data)
    /\ op.result = GetValue(2, op.key, op.type, None, data)

-----------------------------------------------------------------------------
(* MergeConfig over MemoryConfig children: set on a child, load.           *)

MaxFires == 1

MergeData ==
    { DictV(<<>>), Dict2(sx, Dict2(sp, IntV(1), sq, IntV(2)), sy, StrV(sRefY)),
      Dict1(sx, Dict1(sq, IntV(9))), Dict1(sX, Dict1(sp, Dict1(sa, IntV(5)))),
      Dict1(sx, Dict1(sp, Dict1(sb, IntV(7)))), Dict1(sx, IntV(0)) }

MergeSetKeys == {sx, sy}
MergeSetValues == {IntV(2), Dict1(<<"Q">>, IntV(1))}

\* MergeConfig(MemoryConfig(ds[1]), ..., MemoryConfig(ds[n])) as object n + 1.
MergeOver(ds) ==
    MergeInit(WithMemories(EmptyHeap(Len(ds) + 1), ds, 1), Len(ds) + 1,
              [i \in 1..Len(ds) |-> i])

MergeSpecInit ==
    /\ \E n \in 0..MaxKids : \E ds \in [1..n -> MergeData] : HeapIs(MergeOver(ds))
    /\ fired = [c \in DOMAIN kind |-> 0]
    /\ stats = NoStats
    /\ op = NoOp
    /\ rd = NoReader

\* child.set(key, value) on a MemoryConfig.
MemorySetStep(keys, values) ==
    \E c \in DOMAIN kind : \E key \in keys : \E value \in values :
        /\ kind[c] = "memory"
        /\ \A z \in DOMAIN fired : fired[z] < MaxFires
        /\ LET r == MemorySet(c, key, value)
           IN  /\ data' = r.data
               /\ fired' = r.out.fired
               /\ op' = [name |-> "set", c |-> c, key |-> key, value |-> value,
                         before |-> fired, seen |-> r.out.seen, raised |-> r.out.raised]
        /\ UNCHANGED <<kind, kids, prefix, lookup, callbacks, serial, loaded, stats, rd>>

MergeChildSet == MemorySetStep(MergeSetKeys, MergeSetValues)

\* merge.load()
MergeLoadStep ==
    \E c \in DOMAIN kind :
        /\ kind[c] = "merge"
        /\ data' = MergeLoad(c, data)
        /\ op' = [name |-> "load", c |-> c, raised |-> FALSE]
        /\ UNCHANGED <<kind, kids, prefix, lookup, callbacks, serial, loaded, fired, stats, rd>>

MergeNext == MergeChildSet \/ MergeLoadStep

SpecMerge == MergeSpecInit /\ [][MergeNext]_vars

\* The deep merge of mapping b over mapping a, key by key: a key of one side
\* only keeps its value; for a key of both sides (keys are matched ignoring
\* case and keep a's casing) two mappings are merged and anything else is
\* replaced by b's value.
RECURSIVE DeepMerge(_, _)
DeepMerge(a, b) ==
    LET onlyB == {k \in MapKeys(b) : MapGet(a, k) = None}
    IN  MapV([k \in MapKeys(a) \cup onlyB |->
              IF k \in onlyB /\ k \notin MapKeys(a) THEN MapGet(b, k)
              ELSE IF MapGet(b, k) = None THEN MapGet(a, k)
              ELSE IF IsMapping(MapGet(a, k)) /\ IsMapping(MapGet(b, k))
                   THEN DeepMerge(MapGet(a, k), MapGet(b, k))
                   ELSE MapGet(b, k)])

\* The deep merge of the first n children's backing data, in order.
RECURSIVE DeepMergeKids(_, _)
DeepMergeKids(c, n) ==
    IF n = 0 THEN MapV(EmptyF) ELSE DeepMerge(DeepMergeKids(c, n - 1), data[kids[c][n]])

\* C2: after MergeConfig.load() the backing data is the deep merge of the
\* children's raw data in order: nested mappings under a key several children
\* hold are combined recursively, the later child winning per leaf; otherwise
\* the later child's value replaces the earlier one; a key of one child only
\* is kept as it is.
C2_MergeLoadIsDeepMerge ==
    op.name = "load" => data[op.c] = DeepMergeKids(op.c, Len(kids[op.c]))

\* A load that combined the nested records of two children under one key: the
\* first child's leaf p survives beside the second child's leaf q.
C2_Witness ==
    /\ op.name = "load"
    /\ Len(kids[op.c]) = 2
    /\ IsMapping(MapGet(data[1], sx)) /\ IsMapping(MapGet(data[2], sx))
    /\ MapGet(data[op.c], sx) # MapGet(data[1], sx)
    /\ MapGet(data[op.c], sx) # MapGet(data[2], sx)
    /\ MapGet(MapGet(data[op.c], sx), sp) = MapGet(MapGet(data[1], sx), sp)
    /\ MapGet(MapGet(data[op.c], sx), sq) = IntV(9)

-----------------------------------------------------------------------------
(* ReloadConfig over a source whose load can fail.                         *)

MaxOps == 4
MaxObservers == 2

\* What a load of the delegate can read: the source's content at that time.
ReloadContents == {Dict1(sx, IntV(1)), Dict1(sx, IntV(2))}

\* ReloadConfig(FileConfig(...), scheduler): the delegate is object 1, the
\* wrapper object 2.
ReloadOver ==
    ReloadInit(BaseInit(EmptyHeap(2), 1, "file"), 2, 1)

ReloadSpecInit ==
    /\ HeapIs(ReloadOver)
    /\ fired = [c \in DOMAIN kind |-> 0]
    /\ stats = [loadCalls |-> 0, loadsDone |-> 0, loadLoads |-> 0, scheduleCalls |-> 0,
                ticks |-> 0, tickLoads |-> 0, tickLoadFailures |-> 0,
                tickCallbackFailures |-> 0, escaped |-> 0]
    /\ op = NoOp
    /\ rd = NoReader

\* BaseConfig.on_updated(func): the application adds a callback to config c,
\* one that raises or (when mayPass) one that does not.
OnUpdated(c, mayPass) ==
    \E fails \in {TRUE, ~mayPass} :
        /\ Len(callbacks[c]) < MaxObservers
        /\ callbacks' = [callbacks EXCEPT ![c] = Append(@, Observer(Len(@) + 1, fails))]
        /\ op' = [name |-> "on_updated"]
        /\ UNCHANGED <<kind, kids, prefix, data, lookup, serial, loaded, fired, stats, rd>>

\* A ReloadConfig.load that registers the task on every call.
ReloadLoadNoFlag(c, ok) ==
    [delegateLoads |-> 1, raised |-> ~ok, schedules |-> IF ok THEN 1 ELSE 0,
     loaded |-> loaded[c]]

\* ReloadConfig.load, the delegate's load succeeding (ok) or raising: how many
\* loads of the delegate it makes, whether it raises, how many times it calls
\* scheduler.schedule, and the _loaded flag it leaves.
ReloadLoad(c, ok) ==
    [delegateLoads |-> 1, raised |-> ~ok,
     schedules |-> IF ok /\ ~loaded[c] THEN 1 ELSE 0,
     loaded |-> IF ok THEN TRUE ELSE loaded[c]]

\* A ReloadConfig._reload without its try/except blocks.
ReloadUnguarded(c, ok, d) ==
    LET out == Fire(c, sx, d, [fired |-> fired, seen |-> <<>>, raised |-> FALSE])
    IN  IF ok THEN [delegateLoads |-> 1, fired |-> out.fired, seen |-> out.seen,
                    escaped |-> out.raised]
        ELSE [delegateLoads |-> 1, fired |-> fired, seen |-> <<>>, escaped |-> TRUE]

\* ReloadConfig._reload, the periodic callback, the delegate's load succeeding
\* (ok) or raising, d being the backing data after that load: both phases run
\* inside try/except, so nothing escapes.
Reload(c, ok, d) ==
    LET out == Fire(c, sx, d, [fired |-> fired, seen |-> <<>>, raised |-> FALSE])
    IN  [delegateLoads |-> 1, fired |-> out.fired, seen |-> out.seen, escaped |-> FALSE]

\* The load of the delegate: new content replaces the backing data, a failure
\* leaves it.
DelegateLoaded(c, ok, content) ==
    IF ok THEN [data EXCEPT ![kids[c][1]] = make_ignore_case(content)] ELSE data

\* reload.load() is called by the application.
ReloadLoadStep ==
    \E c \in DOMAIN kind : \E ok \in BOOLEAN : \E content \in ReloadContents :
        /\ kind[c] = "reload"
        /\ stats.loadCalls + stats.ticks < MaxOps
        /\ LET r == ReloadLoad(c, ok)
           IN  /\ data' = DelegateLoaded(c, ok, content)
               /\ loaded' = [loaded EXCEPT ![c] = r.loaded]
               /\ stats' = [stats EXCEPT !.loadCalls = @ + 1,
                                         !.loadsDone = @ + (IF r.raised THEN 0 ELSE 1),
                                         !.loadLoads = @ + r.delegateLoads,
                                         !.scheduleCalls = @ + r.schedules]
               /\ op' = [name |-> "load", c |-> c, raised |-> r.raised]
        /\ UNCHANGED <<kind, kids, prefix, lookup, callbacks, serial, fired, rd>>

\* The scheduler invokes the periodic callback it was given.
ReloadTick ==
    \E c \in DOMAIN kind : \E ok \in BOOLEAN : \E content \in ReloadContents :
        /\ kind[c] = "reload"
        /\ stats.scheduleCalls > 0
        /\ stats.escaped = 0
        /\ stats.loadCalls + stats.ticks < MaxOps
        /\ LET d == DelegateLoaded(c, ok, content)
               r == Reload(c, ok, d)
               cbFails == \E i \in DOMAIN callbacks[c] : callbacks[c][i].fails
           IN  /\ data' = d
               /\ fired' = r.fired
               /\ stats' = [stats EXCEPT !.ticks = @ + 1,
                                         !.tickLoads = @ + r.delegateLoads,
                                         !.tickLoadFailures = @ + (IF ok THEN 0 ELSE 1),
                                         !.tickCallbackFailures = @ + (IF cbFails THEN 1 ELSE 0),
                                         !.escaped = @ + (IF r.escaped THEN 1 ELSE 0)]
               /\ op' = [name |-> "reload", c |-> c, seen |-> r.seen, raised |-> r.escaped]
        /\ UNCHANGED <<kind, kids, prefix, lookup, callbacks, serial, loaded, rd>>

ReloadSubscribe == OnUpdated(2, TRUE)

ReloadNext == ReloadLoadStep \/ ReloadTick \/ ReloadSubscribe

SpecReload == ReloadSpecInit /\ [][ReloadNext]_vars

\* C3: over any sequence of load() calls on a ReloadConfig, some of them
\* failing in the delegate, schedule() is called at most once, it has been
\* called exactly when some load() has completed (so during the first one that
\* did), and every load() call made exactly one load of the delegate.
C3_ScheduleOnce ==
    /\ stats.scheduleCalls <= 1
    /\ (stats.scheduleCalls = 1) <=> (stats.loadsDone >= 1)
    /\ stats.loadLoads = stats.loadCalls

\* Three calls of load(): one failed, two completed, one schedule().
C3_Witness ==
    /\ stats.loadCalls >= 3
    /\ stats.loadsDone >= 2
    /\ stats.loadsDone < stats.loadCalls
    /\ stats.scheduleCalls = 1

\* C4: every invocation of the periodic callback makes one load of the
\* delegate and then fires the wrapper's updated event once, also when the load
\* or a subscriber fails, and no exception leaves the callback: after any
\* number of invocations the three counts agree, and what a subscriber reads
\* when called is the data the load attempt left.
C4_ReloadRunsBothPhases ==
    /\ stats.tickLoads = stats.ticks
    /\ fired[2] = stats.ticks
    /\ stats.escaped = 0
    /\ op.name = "reload" =>
         /\ ~op.raised
         /\ \A i \in DOMAIN op.seen : op.seen[i].value = GetRaw(2, sx, data)

\* Two invocations, after a failed load and after a failing subscriber.
C4_Witness ==
    /\ stats.ticks >= 2
    /\ stats.tickLoadFailures >= 1
    /\ stats.tickCallbackFailures >= 1
    /\ fired[2] = stats.ticks

-----------------------------------------------------------------------------
(* MemoryConfig: set, subscribers, typed reads.                            *)

MemoryData == {DictV(<<>>), Dict1(sy, StrV(sh)), Dict1(sa, Dict1(sb, IntV(7))), Dict1(sX, IntV(0))}

MemoryKeys == {sx, sab}

sRefYh == <<"$", "{", "y", "}", "h">>

MemoryValues ==
    { BoolV(TRUE), IntV(5), StrV(sh), StrV(<<>>), StrV(sRefY), StrV(sRefYh),
      ListV(<<IntV(1), StrV(sRefZ)>>), Dict1(sp, Dict1(sq, StrV(sRefZ))),
      Dict2(<<"A">>, IntV(1), sa, IntV(2)) }

MemorySpecInit ==
    /\ \E initial \in MemoryData : HeapIs(MemoryInit(EmptyHeap(1), 1, initial))
    /\ fired = [c \in DOMAIN kind |-> 0]
    /\ stats = NoStats
    /\ op = NoOp
    /\ rd = NoReader

MemorySubscribe == OnUpdated(1, TRUE)

MemoryWrite == MemorySetStep(MemoryKeys, MemoryValues)

\* Straight after a set the application reads the key back with the typed
\* getter of the value's type (get_bool, get_int, get_str, get_list,
\* get_dict) or with the generic get.
MemoryRead ==
    \E type \in {"object", "bool", "int", "str", "list", "dict"} :
        /\ op.name = "set"
        /\ ~op.raised
        /\ type \in {"object", NativeType(op.value)}
        /\ op' = [name |-> "get", c |-> op.c, key |-> op.key, type |-> type,
                  written |-> op.value,
                  result |-> GetValue(op.c, op.key, type, None, data)]
        /\ UNCHANGED <<heapVars, fired, stats, rd>>

MemoryNext == MemorySubscribe \/ MemoryWrite \/ MemoryRead

SpecMemory == MemorySpecInit /\ [][MemoryNext]_vars

\* The callbacks of config c that one invocation of its event calls: all of
\* them, or those up to the first one that raises.
Called(c) ==
    LET failing == {i \in DOMAIN callbacks[c] : callbacks[c][i].type = "observer" /\ callbacks[c][i].fails}
    IN  IF failing = {} THEN Len(callbacks[c])
        ELSE CHOOSE i \in failing : \A j \in failing : i <= j

\* C5: a MemoryConfig.set(key, value) fires the config's updated event once,
\* inside the call and after the value is stored: the event's invocation count
\* grows by one, every subscriber is called in turn (up to one that raises),
\* and what each reads with get_raw(key) is the value as stored.
C5_SetStoresThenFiresOnce ==
    op.name = "set" =>
        /\ fired[op.c] = op.before[op.c] + 1
        /\ Len(op.seen) = Called(op.c)
        /\ \A i \in DOMAIN op.seen :
              /\ op.seen[i].value = make_ignore_case(op.value)
              /\ op.seen[i].value = GetRaw(op.c, op.key, data)

\* A set with two subscribers, both called, on a key that held another value.
C5_Witness ==
    /\ op.name = "set"
    /\ Len(op.seen) = 2
    /\ op.key = sab
    /\ op.value = IntV(5)
    /\ MapGet(data[1], sa) # None

\* A string holds a variable reference: a ${ that a } follows.
HasReference(s) ==
    \E i \in 1..(Len(s) - 1) : s[i] = "$" /\ s[i + 1] = "{" /\ IndexOf(s, "}", i + 2) # 0

\* No two keys of a record are equal ignoring case, at any depth.
RECURSIVE CaseDistinct(_)
CaseDistinct(value) ==
    IF value.t # "dict" THEN TRUE
    ELSE /\ \A i, j \in DOMAIN value.v :
              i # j => Lower(value.v[i][1]) # Lower(value.v[j][1])
         /\ \A i \in DOMAIN value.v : CaseDistinct(value.v[i][2])

-----------------------------------------------------------------------------
(* Composites built over each other: construction, lookup assignment, set  *)
(* on a leaf.                                                              *)

MaxTree == 3
MaxFresh == 1

Constructed == {c \in DOMAIN kind : kind[c] # "none"}

\* The configs no composite holds.
Roots == {c \in Constructed : \A p \in Constructed : \A i \in DOMAIN kids[p] : kids[p][i] # c}

\* The object the next constructor call creates.
NextObject == IF Constructed = {} THEN 1 ELSE Max(Constructed) + 1

\* The sequences without repetition of at most n elements of S.
RECURSIVE Arrangements(_, _)
Arrangements(S, n) ==
    IF n = 0 THEN {<<>>}
    ELSE {<<>>} \cup {<<x>> \o rest : x \in S, rest \in Arrangements(S, n - 1)}

Distinct(q) == \A i, j \in DOMAIN q : i # j => q[i] # q[j]

TreeSpecInit ==
    /\ HeapIs(EmptyHeap(MaxTree))
    /\ fired = [c \in 1..MaxTree |-> 0]
    /\ stats = NoStats
    /\ op = NoOp
    /\ rd = NoReader

\* MemoryConfig()
NewMemory ==
    /\ NextObject <= MaxTree
    /\ HeapBecomes(MemoryInit(Heap, NextObject, None))
    /\ op' = [name |-> "new"]
    /\ UNCHANGED <<fired, stats, rd>>

\* ChainConfig(*configs) or MergeConfig(*configs) over configs nothing holds yet.
NewChainOrMerge ==
    \E k \in {"chain", "merge"} : \E configs \in Arrangements(Roots, MaxKids) :
        /\ NextObject <= MaxTree
        /\ Distinct(configs)
        /\ HeapBecomes(IF k = "chain" THEN ChainInit(Heap, NextObject, configs)
                       ELSE MergeInit(Heap, NextObject, configs))
        /\ op' = [name |-> "new"]
        /\ UNCHANGED <<fired, stats, rd>>

\* PrefixedConfig(prefix, config) or ReloadConfig(config, scheduler)
NewPrefixedOrReload ==
    \E k \in {"prefixed", "reload"} : \E config \in Roots :
        /\ NextObject <= MaxTree
        /\ HeapBecomes(IF k = "prefixed" THEN PrefixedInit(Heap, NextObject, sa, config)
                       ELSE ReloadInit(Heap, NextObject, config))
        /\ op' = [name |-> "new"]
        /\ UNCHANGED <<fired, stats, rd>>

\* config.lookup = value, on a config the application holds (a root): None, or
\* a lookup object of the application.
AssignLookup ==
    \E c \in Roots : \E value \in {None, EnvironmentLookup(0)} :
        /\ kind[c] # "memory"
        /\ value = None => serial < MaxTree + MaxFresh
        /\ HeapBecomes(LookupSet(Heap, c, value))
        /\ op' = [name |-> "lookup"]
        /\ UNCHANGED <<fired, stats, rd>>

\* config.on_updated(func), with a func that raises, on a MemoryConfig that
\* has no callback yet: so also before a composite adds its own.
TreeSubscribe ==
    \E c \in Constructed :
        /\ kind[c] = "memory"
        /\ callbacks[c] = <<>>
        /\ OnUpdated(c, FALSE)

TreeSet == MemorySetStep({sx}, {IntV(1)})

\* Construction, subscription and set: the updated events of a tree.
TreeNext ==
    \/ NewMemory
    \/ NewChainOrMerge
    \/ NewPrefixedOrReload
    \/ TreeSubscribe
    \/ TreeSet

SpecTree == TreeSpecInit /\ [][TreeNext]_vars

\* Construction and lookup assignment: the lookups of a tree.
LookupNext ==
    \/ NewMemory
    \/ NewChainOrMerge
    \/ NewPrefixedOrReload
    \/ AssignLookup

SpecLookup == TreeSpecInit /\ [][LookupNext]_vars

C8_ChildrenShareParentLookup ==
    \A p \in Constructed : \A i \in DOMAIN kids[p] : lookup[kids[p][i]] = lookup[p]

-----------------------------------------------------------------------------
(* The loaders of the data sources.                                        *)

MaxArgs == 2
MaxHops == 3

sf == <<"f">>
sg == <<"g">>

\* The outcome of a load() call: the backing data of every config when the
\* call ends, whether it ended by raising, whether it never ends, and how
\* many sources it had read by then.
Outcome(d, raised, diverged, read) ==
    [data |-> d, raised |-> raised, diverged |-> diverged, read |-> read]

\* bool(value)
Truthy(value) ==
    CASE value.t = "none" -> FALSE
      [] value.t = "int" -> value.v # 0
      [] value.t = "bool" -> value.v
      [] value.t \in {"str", "list", "dict"} -> Len(value.v) > 0
      [] value.t = "map" -> DOMAIN value.v # {}
      [] OTHER -> TRUE

\* merge_properties(dst, src): the dst it leaves.
RECURSIVE merge_properties(_, _)
RECURSIVE MergePropertiesKeys(_, _, _)
\* The kind of container a value is.
ContainerKind(value) ==
    IF IsMapping(value) THEN "map" ELSE IF value.t = "list" THEN "list" ELSE "scalar"
\* A merge that keeps dst's value only when the kinds of container differ.
RECURSIVE MergePropertiesKeysByKind(_, _, _)
MergePropertiesKeysByKind(dst, src, todo) ==
    IF todo = {} THEN dst
    ELSE LET key == CHOOSE k \in todo : TRUE
             dst_value == MapGet(dst, key)
             src_value == MapGet(src, key)
             next == IF src_value = None \/ dst_value = None
                     THEN MapSet(dst, key, src_value)
                     ELSE IF ContainerKind(src_value) # ContainerKind(dst_value) THEN dst
                     ELSE IF dst_value.t = "dict"
                          THEN MapSet(dst, key, merge_properties(dst_value, src_value))
                          ELSE MapSet(dst, key, src_value)
         IN  MergePropertiesKeysByKind(next, src, todo \ {key})
\* The loop of merge_properties over src.keys(), todo being the keys to come.
MergePropertiesKeys(dst, src, todo) ==
    IF todo = {} THEN dst
    ELSE LET key == CHOOSE k \in todo : TRUE
             dst_value == MapGet(dst, key)
             src_value == MapGet(src, key)
             next == IF src_value = None \/ dst_value = None
                     THEN MapSet(dst, key, src_value)
                     ELSE IF src_value.t # dst_value.t THEN dst
                     ELSE IF dst_value.t = "dict"
                          THEN MapSet(dst, key, merge_properties(dst_value, src_value))
                          ELSE MapSet(dst, key, src_value)
         IN  MergePropertiesKeys(next, src, todo \ {key})
merge_properties(dst, src) ==
    IF MapKeys(dst) = {}
    THEN MergePropertiesKeys(dst, src, MapKeys(src))   \* dst.update(src)
    ELSE MergePropertiesKeys(dst, src, MapKeys(src))

\* Transformer.transform(data, new_data): new_data folded into the accumulator.
Transform(acc, new_data) == merge_properties(acc, new_data)

\* str.strip() of spaces.
RECURSIVE Strip(_)
Strip(s) ==
    IF s = <<>> THEN s
    ELSE IF Head(s) = " " THEN Strip(Tail(s))
    ELSE IF s[Len(s)] = " " THEN Strip(SubSeq(s, 1, Len(s) - 1))
    ELSE s

\* str.startswith(prefix)
StartsWith(s, pfx) == Len(s) >= Len(pfx) /\ SubSeq(s, 1, Len(pfx)) = pfx

\* raise ConfigError(...): error is the kind of message and what it names.
ArgError(local, error) == [data |-> local, raised |-> TRUE, error |-> error]

\* A parse that reads the token it took as a value again as an argument.
RECURSIVE ParseArgsValueReparsed(_, _, _)
ParseArgsValueReparsed(args, i, local) ==
    IF i > Len(args) THEN [data |-> local, raised |-> FALSE, error |-> <<>>]
    ELSE LET current_arg == args[i]
             key_start_index == IF StartsWith(current_arg, <<"-", "-">>) THEN 2
                                ELSE IF StartsWith(current_arg, <<"-">>) THEN 1
                                ELSE 0
             separator == IndexOf(current_arg, "=", 1)
             key == Strip(SubSeq(current_arg, key_start_index + 1, separator - 1))
             value == Strip(SubSeq(current_arg, separator + 1, Len(current_arg)))
             dashed == SubSeq(current_arg, key_start_index + 1, Len(current_arg))
         IN  IF separator = 0
             THEN IF key_start_index = 0
                  THEN ArgError(local, <<"format", current_arg>>)
                  ELSE IF i + 1 > Len(args)
                  THEN ArgError(local, <<"missing", dashed>>)
                  ELSE ParseArgsValueReparsed(args, i + 1, MapSet(local, dashed, StrV(args[i + 1])))
             ELSE IF key = <<>> THEN ArgError(local, <<"format", current_arg>>)
             ELSE ParseArgsValueReparsed(args, i + 1, MapSet(local, key, StrV(value)))

\* A parse that accepts an empty key before '='.
RECURSIVE ParseArgsEmptyKey(_, _, _)
ParseArgsEmptyKey(args, i, local) ==
    IF i > Len(args) THEN [data |-> local, raised |-> FALSE, error |-> <<>>]
    ELSE LET current_arg == args[i]
             key_start_index == IF StartsWith(current_arg, <<"-", "-">>) THEN 2
                                ELSE IF StartsWith(current_arg, <<"-">>) THEN 1
                                ELSE 0
             separator == IndexOf(current_arg, "=", 1)
             key == Strip(SubSeq(current_arg, key_start_index + 1, separator - 1))
             value == Strip(SubSeq(current_arg, separator + 1, Len(current_arg)))
             dashed == SubSeq(current_arg, key_start_index + 1, Len(current_arg))
         IN  IF separator = 0
             THEN IF key_start_index = 0
                  THEN ArgError(local, <<"format", current_arg>>)
                  ELSE IF i + 1 > Len(args)
                  THEN ArgError(local, <<"missing", dashed>>)
                  ELSE ParseArgsEmptyKey(args, i + 2, MapSet(local, dashed, StrV(args[i + 1])))
             ELSE ParseArgsEmptyKey(args, i + 1, MapSet(local, key, StrV(value)))

\* The loop of CommandLineConfig.load over sys.argv[1:], at argument i, with
\* the local data assembled so far.
RECURSIVE ParseArgs(_, _, _)
ParseArgs(args, i, local) ==
    IF i > Len(args) THEN [data |-> local, raised |-> FALSE, error |-> <<>>]
    ELSE LET current_arg == args[i]
             key_start_index == IF StartsWith(current_arg, <<"-", "-">>) THEN 2
                                ELSE IF StartsWith(current_arg, <<"-">>) THEN 1
                                ELSE 0
             separator == IndexOf(current_arg, "=", 1)
             key == Strip(SubSeq(current_arg, key_start_index + 1, separator - 1))
             value == Strip(SubSeq(current_arg, separator + 1, Len(current_arg)))
             dashed == SubSeq(current_arg, key_start_index + 1, Len(current_arg))
         IN  IF separator = 0
             THEN IF key_start_index = 0
                  THEN ArgError(local, <<"format", current_arg>>)
                  ELSE IF i + 1 > Len(args)
                  THEN ArgError(local, <<"missing", dashed>>)
                  ELSE ParseArgs(args, i + 2, MapSet(local, dashed, StrV(args[i + 1])))
             ELSE IF key = <<>> THEN ArgError(local, <<"format", current_arg>>)
             ELSE ParseArgs(args, i + 1, MapSet(local, key, StrV(value)))

\* CommandLineConfig.load, sys.argv[1:] being args.
CommandLineLoaded(c, d, r) ==
    IF r.raised THEN Outcome(d, TRUE, FALSE, 0)
    ELSE Outcome([d EXCEPT ![c] = r.data], FALSE, FALSE, 0)
CommandLineLoad(c, args, d) == CommandLineLoaded(c, d, ParseArgs(args, 1, MapV(EmptyF)))

\* What a name holds in the file system, on the web or in the bucket: nothing,
\* something that cannot be read or parsed, or a mapping.  Of a parsed
\* mapping, next is what pop('@next', None) returns, body the other items,
\* and ignorecase tells whether the reader returned an IgnoreCaseDict.
Missing == [t |-> "missing"]
Unreadable == [t |-> "unreadable"]
Parsed(body, next, ignorecase) ==
    [t |-> "parsed", body |-> body, next |-> next, ignorecase |-> ignorecase]

Stored(store, name) == IF name \in DOMAIN store THEN store[name] ELSE Missing

\* The mapping reader.read returned, after the pop of '@next'.
ReadBody(parsed) ==
    IF parsed.ignorecase THEN make_ignore_case(parsed.body) ELSE parsed.body

\* The lookup FileConfig and UrlConfig resolve names with.
NameLookup(c) == ChainLookup(<<EnvironmentLookup(0), lookup[c]>>)

\* What a hop loop ends with: the mappings read (or the accumulator), whether
\* an exception ended it, whether it never ends (more than MaxHops hops), and
\* how many sources were read.
Hops(acc, raised, diverged, read) ==
    [acc |-> acc, raised |-> raised, diverged |-> diverged, read |-> read]

\* FileConfig._find_file(filename), the name resolved being resolved: the
\* name when a file of that name exists.
FoundFile(store, resolved) ==
    IF IsErr(resolved) THEN resolved
    ELSE IF Stored(store, resolved.v).t = "missing" THEN None
    ELSE resolved
FindFile(c, store, filename, d) ==
    FoundFile(store, Resolve(filename, NameLookup(c), d, MaxFuel))

\* The while loop of FileConfig.load; FileHop is its body, file being what
\* _find_file returned.
RECURSIVE FileHops(_, _, _, _, _, _)
RECURSIVE FileHop(_, _, _, _, _, _)
FileRead(c, store, parsed, to_merge, d, hops) ==
    IF parsed.t = "unreadable" THEN Hops(to_merge, TRUE, FALSE, Len(to_merge))
    ELSE IF ~parsed.ignorecase THEN Hops(to_merge, TRUE, FALSE, Len(to_merge))
    ELSE IF parsed.next # None /\ ~IsStr(parsed.next)
         THEN Hops(to_merge, TRUE, FALSE, Len(to_merge))
    ELSE FileHops(c, store, parsed.next, Append(to_merge, ReadBody(parsed)),
                  d, hops - 1)
FileHop(c, store, file, to_merge, d, hops) ==
    IF IsErr(file) \/ file = None THEN Hops(to_merge, TRUE, FALSE, Len(to_merge))
    ELSE FileRead(c, store, Stored(store, file.v), to_merge, d, hops)
FileHops(c, store, filename, to_merge, d, hops) ==
    IF ~Truthy(filename) THEN Hops(to_merge, FALSE, FALSE, Len(to_merge))
    ELSE IF hops = 0 THEN Hops(to_merge, FALSE, TRUE, Len(to_merge))
    ELSE FileHop(c, store, FindFile(c, store, filename.v, d), to_merge, d, hops)

\* The end of FileConfig.load and of UrlConfig.load, the loop having ended as
\* r: the merge of the mappings read and the assignment of self._data.
MergeAndAssign(c, d, r) ==
    Outcome([d EXCEPT ![c] = merge_dict(Head(r.acc), Tail(r.acc))], FALSE, FALSE, r.read)

\* FileConfig.load of a config whose filename is f.
FileLoaded(c, d, r) ==
    IF r.raised \/ r.diverged THEN Outcome(d, r.raised, r.diverged, r.read)
    ELSE MergeAndAssign(c, d, r)
FileLoad(c, store, d) ==
    FileLoaded(c, d, FileHops(c, store, StrV(sf), <<>>, d, MaxHops))

\* The while loop of UrlConfig.load; UrlHop is its body, resolved being the
\* url with its references resolved.
RECURSIVE UrlHops(_, _, _, _, _, _)
RECURSIVE UrlHop(_, _, _, _, _, _)
UrlRead(c, store, parsed, to_merge, d, hops) ==
    IF parsed.t \in {"missing", "unreadable"}
    THEN Hops(to_merge, TRUE, FALSE, Len(to_merge))
    ELSE IF Truthy(parsed.next) /\ ~IsStr(parsed.next)
         THEN Hops(Append(to_merge, ReadBody(parsed)), TRUE, FALSE, Len(to_merge) + 1)
    ELSE UrlHops(c, store, parsed.next, Append(to_merge, ReadBody(parsed)), d, hops - 1)
UrlHop(c, store, resolved, to_merge, d, hops) ==
    IF IsErr(resolved) THEN Hops(to_merge, TRUE, FALSE, Len(to_merge))
    ELSE UrlRead(c, store, Stored(store, resolved.v), to_merge, d, hops)
UrlHops(c, store, url, to_merge, d, hops) ==
    IF ~Truthy(url) THEN Hops(to_merge, FALSE, FALSE, Len(to_merge))
    ELSE IF hops = 0 THEN Hops(to_merge, FALSE, TRUE, Len(to_merge))
    ELSE UrlHop(c, store, Resolve(url.v, NameLookup(c), d, MaxFuel), to_merge, d, hops)

\* UrlConfig.load of a config whose url is f.
UrlLoaded(c, d, r) ==
    IF r.raised \/ r.diverged THEN Outcome(d, r.raised, r.diverged, r.read)
    ELSE IF Head(r.acc).t # "map" THEN Outcome(d, TRUE, FALSE, r.read)
    ELSE MergeAndAssign(c, d, r)
UrlLoad(c, store, d) ==
    UrlLoaded(c, d, UrlHops(c, store, StrV(sf), <<>>, d, MaxHops))

\* S3Config._read(filename, data): acc is the dict every hop folds into,
\* parsed what was read, folded the dict after the fold, next_filename the
\* resolved '@next'.
RECURSIVE S3Read(_, _, _, _, _, _, _)
S3Next(c, store, next_filename, folded, d, hops, read) ==
    IF IsErr(next_filename) THEN Hops(folded, TRUE, FALSE, read)
    ELSE S3Read(c, store, next_filename.v, folded, d, hops, read)
S3Fold(c, store, parsed, folded, d, hops, read) ==
    IF ~Truthy(parsed.next) THEN Hops(folded, FALSE, FALSE, read)
    ELSE IF ~IsStr(parsed.next) THEN Hops(folded, TRUE, FALSE, read)
    ELSE S3Next(c, store, Resolve(parsed.next.v, lookup[c], d, MaxFuel), folded, d,
                hops, read)
S3Parsed(c, store, parsed, acc, d, hops, read) ==
    IF parsed.t \in {"missing", "unreadable"} THEN Hops(acc, TRUE, FALSE, read)
    ELSE S3Fold(c, store, parsed, Transform(acc, ReadBody(parsed)), d, hops - 1, read + 1)
S3Read(c, store, filename, acc, d, hops, read) ==
    IF hops = 0 THEN Hops(acc, FALSE, TRUE, read)
    ELSE S3Parsed(c, store, Stored(store, filename), acc, d, hops, read)

\* An S3Config.load that assigns the dict to self._data before it reads into it.
S3LoadedAssignFirst(c, d, r) ==
    Outcome([d EXCEPT ![c] = r.acc], r.raised, r.diverged, r.read)

\* S3Config.load of a config whose filename is f: data = {}, the reads, and
\* the assignment of self._data.
S3Loaded(c, d, r) ==
    IF r.raised \/ r.diverged THEN Outcome(d, r.raised, r.diverged, r.read)
    ELSE Outcome([d EXCEPT ![c] = r.acc], FALSE, FALSE, r.read)
S3Load(c, store, d) ==
    S3Loaded(c, d, S3Read(c, store, sf, DictV(<<>>), d, MaxHops, 0))

\* load() of config c.
RECURSIVE Load(_, _, _, _)
\* The loop of MergeConfig.load over the children.
RECURSIVE LoadAll(_, _, _, _, _)
RECURSIVE LoadedAll(_, _, _, _, _)
LoadedAll(configs, i, store, argv, r) ==
    IF r.raised \/ r.diverged THEN [r EXCEPT !.read = i - 1]
    ELSE LoadAll(configs, i + 1, store, argv, r.data)
LoadAll(configs, i, store, argv, d) ==
    IF i > Len(configs) THEN Outcome(d, FALSE, FALSE, i - 1)
    ELSE LoadedAll(configs, i, store, argv, Load(configs[i], store, argv, d))
\* MergeConfig.load over children of any class: the loop, then the merge.
MergeLoaded(c, r) ==
    IF r.raised \/ r.diverged THEN r ELSE [r EXCEPT !.data = MergeLoad(c, r.data)]
MergeConfigLoad(c, store, argv, d) ==
    MergeLoaded(c, LoadAll(kids[c], 1, store, argv, d))
Load(c, store, argv, d) ==
    CASE kind[c] = "commandline" -> CommandLineLoad(c, argv, d)
      [] kind[c] = "file" -> FileLoad(c, store, d)
      [] kind[c] = "url" -> UrlLoad(c, store, d)
      [] kind[c] = "s3" -> S3Load(c, store, d)
      [] kind[c] = "merge" -> MergeConfigLoad(c, store, argv, d)
      [] kind[c] = "memory" -> Outcome(d, FALSE, FALSE, 0)
      [] kind[c] = "chain" -> LoadAll(kids[c], 1, store, argv, d)
      [] kind[c] \in {"prefixed", "reload"} -> Load(kids[c][1], store, argv, d)

\* The inputs: what the names f and g hold, and the argument lists.
Contents(bodies, nexts) ==
    {Missing, Unreadable}
        \cup {Parsed(b, n, s) : b \in bodies, n \in nexts, s \in BOOLEAN}
Stores ==
    {[z \in {sf, sg} |-> IF z = sf THEN first ELSE second] :
        first \in Contents({Dict1(sx, IntV(1)),
                            Dict2(sx, IntV(2), sa, Dict1(sb, IntV(5)))},
                           {None, StrV(sg), StrV(sf), StrV(sRefZ), StrV(<<>>),
                            IntV(0), IntV(1)}),
        second \in Contents({Dict2(sX, IntV(7), sa, Dict1(sp, IntV(7)))},
                            {None, StrV(sf), IntV(1)})}
ArgTokens ==
    {<<"-", "-", "x", "=", "1">>, <<"-", "y">>, <<"2">>, <<"=", "3">>,
     <<"X", "=", " ", "5">>}
ArgLists == UNION {[1..n -> ArgTokens] : n \in 0..MaxArgs}

\* One source constructed: a CommandLineConfig, a FileConfig, a UrlConfig, an
\* S3Config, or a MergeConfig over a FileConfig and a MemoryConfig.
LoadOver(k) ==
    IF k = "merge"
    THEN MergeInit(MemoryInit(BaseInit(EmptyHeap(3), 1, "file"), 2, Dict1(sy, IntV(9))),
                   3, <<1, 2>>)
    ELSE BaseInit(EmptyHeap(3), 1, k)

LoadSpecInit ==
    \E k \in {"commandline", "file", "url", "s3", "merge"} :
        /\ HeapIs(LoadOver(k))
        /\ fired = [c \in 1..3 |-> 0]
        /\ stats = NoStats
        /\ op = NoOp
        /\ rd = NoReader

\* config.load() has returned or raised: what the call left.
Loaded(c, r) ==
    /\ ~r.diverged
    /\ data' = r.data
    /\ op' = [name |-> "load", c |-> c, before |-> data, raised |-> r.raised,
              read |-> r.read]
    /\ UNCHANGED <<kind, kids, prefix, lookup, callbacks, serial, loaded, fired, stats, rd>>

\* load() of a FileConfig, a UrlConfig, an S3Config or a MergeConfig.
LoadFromStore ==
    \E c \in Constructed : \E store \in Stores :
        /\ kind[c] \in {"file", "url", "s3", "merge"}
        /\ Loaded(c, Load(c, store, <<>>, data))

\* load() of a CommandLineConfig.
LoadFromArgs ==
    \E c \in Constructed : \E argv \in ArgLists :
        /\ kind[c] = "commandline"
        /\ Loaded(c, Load(c, [z \in {} |-> Missing], argv, data))

LoadNext ==
    \/ LoadFromStore
    \/ LoadFromArgs

SpecLoad == LoadSpecInit /\ [][LoadNext]_vars

\* C9: a load() call that raised left the backing data of the source exactly
\* as it was before the call.
C9_FailedLoadKeepsData ==
    (op.name = "load" /\ op.raised) => data[op.c] = op.before[op.c]

\* An S3Config that held data from an earlier load was loaded again; the call
\* read one object and then raised.
C9_Witness ==
    /\ op.name = "load"
    /\ op.raised
    /\ kind[op.c] = "s3"
    /\ op.read >= 1
    /\ MapKeys(data[op.c]) # {}

-----------------------------------------------------------------------------
(* A thread in get_raw while another thread loads the same FileConfig.     *)

\* What the file f holds at the time of a load.
RaceStores ==
    {[z \in {sf} |-> first] :
        first \in {Missing} \cup
            {Parsed(b, None, TRUE) :
                b \in {Dict1(sab, IntV(1)),
                       Dict1(sa, Dict1(sb, IntV(2))),
                       Dict2(sab, IntV(1), sa, Dict1(sb, IntV(2))),
                       Dict1(sx, IntV(5))}}}
RaceKeys == {sab, sa, sx}

\* A FileConfig constructed; no thread is in get_raw.
RaceSpecInit ==
    /\ HeapIs(BaseInit(EmptyHeap(1), 1, "file"))
    /\ fired = [c \in 1..1 |-> 0]
    /\ stats = NoStats
    /\ op = NoOp
    /\ rd = NoReader

\* The reading thread calls get_raw(key).  versions collects every backing
\* mapping the config holds at some moment of the call.
RaceCall ==
    \E key \in RaceKeys :
        /\ rd.pc \in {"idle", "returned"}
        /\ rd' = [pc |-> "exact", key |-> key, result |-> None, versions |-> {data[1]}]
        /\ UNCHANGED <<heapVars, fired, stats, op>>

\* get_raw up to its first return statements: value = self._data.get(key),
\* returned when it is not None; None returned for a key without delimiter.
RaceExact ==
    /\ rd.pc = "exact"
    /\ LET value == MapGet(data[1], rd.key)
           paths == Split(rd.key, NESTED_DELIMITER)
       IN  rd' = IF value # None THEN [rd EXCEPT !.pc = "returned", !.result = value]
                 ELSE IF rd.key = paths[1] THEN [rd EXCEPT !.pc = "returned", !.result = None]
                 ELSE [rd EXCEPT !.pc = "nested"]
    /\ UNCHANGED <<heapVars, fired, stats, op>>

\* The rest of get_raw: value = self._data.get(paths[0]) and the walk through
\* the nested mappings.
RaceNested ==
    /\ rd.pc = "nested"
    /\ LET paths == Split(rd.key, NESTED_DELIMITER)
       IN  rd' = [rd EXCEPT !.pc = "returned",
                            !.result = Walk(MapGet(data[1], paths[1]), paths, 2)]
    /\ UNCHANGED <<heapVars, fired, stats, op>>

\* The loading thread runs load(): all it does to the config is the final
\* assignment of self._data, which it makes when nothing raised.
RaceLoaded(r) ==
    /\ ~r.diverged
    /\ data' = r.data
    /\ op' = [name |-> "load", c |-> 1, before |-> data, raised |-> r.raised,
              read |-> r.read]
    /\ rd' = IF rd.pc \in {"exact", "nested"}
             THEN [rd EXCEPT !.versions = @ \cup {r.data[1]}]
             ELSE rd
    /\ UNCHANGED <<kind, kids, prefix, lookup, callbacks, serial, loaded, fired, stats>>
RaceLoad == \E store \in RaceStores : RaceLoaded(Load(1, store, <<>>, data))

RaceNext ==
    \/ RaceCall
    \/ RaceExact
    \/ RaceNested
    \/ RaceLoad

SpecRace == RaceSpecInit /\ [][RaceNext]_vars

\* C10: what get_raw(key) returned while loads ran is what get_raw(key) gives
\* on one of the backing mappings the config held during the call.
C10_ResultFromOneVersion ==
    rd.pc = "returned" => \E m \in rd.versions : rd.result = BaseGetRaw(m, rd.key)

-----------------------------------------------------------------------------
(* get_raw on the backing data of one data source.                         *)

sc == <<"c">>
sB == <<"B">>
sac == <<"a", ".", "c">>
sabc == <<"a", ".", "b", ".", "c">>
sAB == <<"A", ".", "B">>
saDot == <<"a", ".">>

\* What the source holds under a and under a.b (None: no such entry).
RawData ==
    {DictV(SelectSeq(<< <<sa, va>>, <<sab, vab>>, <<sx, IntV(1)>> >>,
                     LAMBDA item : item[2] # None)) :
        va \in {None, IntV(5), StrV(sb), ListV(<<IntV(1)>>),
                Dict1(sb, IntV(5)), Dict1(sB, IntV(2)),
                Dict1(sb, Dict1(sc, IntV(7))),
                Dict2(sb, IntV(5), sc, Dict1(sb, IntV(9)))},
        vab \in {None, IntV(1), Dict1(sc, IntV(3))}}
RawKeys == {sa, sab, sac, sabc, sAB, saDot, sx, sy}

\* MemoryConfig(data): a BaseDataConfig holding the data.
RawSpecInit ==
    /\ \E initial \in RawData : HeapIs(MemoryInit(EmptyHeap(1), 1, initial))
    /\ fired = [c \in 1..1 |-> 0]
    /\ stats = NoStats
    /\ op = NoOp
    /\ rd = NoReader

\* config.get_raw(key)
RawRead ==
    \E key \in RawKeys :
        /\ op' = [name |-> "get_raw", c |-> 1, key |-> key,
                  result |-> GetRaw(1, key, data)]
        /\ UNCHANGED <<heapVars, fired, stats, rd>>

SpecRaw == RawSpecInit /\ [][RawRead]_vars

\* The entry of record m whose key equals key ignoring case; None without one.
Entry(m, key) ==
    IF \E s \in DOMAIN m.v : Lower(s) = Lower(key)
    THEN m.v[CHOOSE s \in DOMAIN m.v : Lower(s) = Lower(key)]
    ELSE None

\* The value the segments lead to from value: each segment is an entry of the
\* record reached so far; None when a segment is missing or when what was
\* reached is not a record.
RECURSIVE Descend(_, _)
Descend(value, segments) ==
    IF segments = <<>> THEN value
    ELSE IF value.t # "map" THEN None
    ELSE Descend(Entry(value, Head(segments)), Tail(segments))

\* C11: get_raw(key) is the top-level entry for the whole key when there is
\* one, and otherwise what the segments of the key between the dots lead to
\* through the nested records, absent when a segment is missing or an
\* intermediate value is not a record.
C11_GetRawExactThenNested ==
    op.name = "get_raw" =>
        op.result = IF Entry(data[1], op.key) # None THEN Entry(data[1], op.key)
                    ELSE Descend(data[1], Split(op.key, NESTED_DELIMITER))

\* With {a: {b: 5}}: a.b gave 5.
C11_Witness ==
    /\ op.name = "get_raw"
    /\ op.key = sab
    /\ op.result = IntV(5)
    /\ Entry(data[1], sab) = None
    /\ Entry(data[1], sa) = MapV(F1(sb, IntV(5)))

-----------------------------------------------------------------------------
(* PrefixedConfig: reads and iteration through the scoped view.            *)

say == <<"a", ".", "y">>
sAc == <<"A", ".", "c">>
sabx == <<"a", "b", "x">>
sRefAY == <<"$", "{", "a", ".", "y", "}">>

\* str.rstrip(NESTED_DELIMITER)
RECURSIVE RStripDelimiter(_)
RStripDelimiter(s) ==
    IF s # <<>> /\ s[Len(s)] = NESTED_DELIMITER
    THEN RStripDelimiter(SubSeq(s, 1, Len(s) - 1))
    ELSE s

\* The keys an iteration gave.
KeysV(keys) == [t |-> "keys", v |-> keys]

\* What the loop of PrefixedConfig.__iter__ adds to keys for one key of the
\* delegate, value being self._config.get(key).
PrefixedIterKey(c, key, value) ==
    IF key = RStripDelimiter(prefix[c])
    THEN IF IsMapping(value) THEN MapKeys(value) ELSE {}
    ELSE IF StartsWith(key, prefix[c])
         THEN {SubSeq(key, Len(prefix[c]) + 1, Len(key))}
         ELSE {}

\* An iteration that strips the prefix from a key whether or not the key
\* starts with it.
PrefixedIterateAnyKey(c, d) ==
    KeysV(UNION {IF Len(key) >= Len(prefix[c])
                 THEN {SubSeq(key, Len(prefix[c]) + 1, Len(key))}
                 ELSE {} : key \in Iterate(kids[c][1], d)})

\* PrefixedConfig.__iter__: the get of the bare prefix may raise.
PrefixedIterate(c, d) ==
    LET bare == GetValue(kids[c][1], RStripDelimiter(prefix[c]), "object", None, d)
    IN  IF RStripDelimiter(prefix[c]) \in Iterate(kids[c][1], d) /\ IsErr(bare)
        THEN bare
        ELSE KeysV(UNION {PrefixedIterKey(c, key, bare) :
                              key \in Iterate(kids[c][1], d)})

\* What the delegate holds under a, a.b, a.c (or A.c), y, a.y and abx.
PrefixedData ==
    {DictV(SelectSeq(<< <<sa, va>>, <<sab, vab>>, <<kc, IntV(2)>>, <<sy, vy>>,
                        <<say, vay>>, <<sabx, vabx>> >>,
                     LAMBDA item : item[2] # None)) :
        va \in {None, IntV(5), Dict2(sb, IntV(5), sh, IntV(1))},
        vab \in {None, StrV(sh), StrV(sRefY), StrV(sRefAY)},
        kc \in {sac, sAc},
        vy \in {None, IntV(9)},
        vay \in {None, IntV(7)},
        vabx \in {None, IntV(0)}}
PrefixedKeys == {sb, sc, sy, sh}

\* The strings a key of the delegate can end with after the delimited prefix.
Remainders == {<<>>} \cup {<<ch>> : ch \in {"a", "b", "c", "y", "x", "."}}

\* config = MemoryConfig(data); PrefixedConfig(prefix, config)
PrefixedSpecInit ==
    /\ \E initial \in PrefixedData : \E pfx \in {sa, saDot} :
          HeapIs(PrefixedInit(MemoryInit(EmptyHeap(2), 1, initial), 2, pfx, 1))
    /\ fired = [c \in 1..2 |-> 0]
    /\ stats = NoStats
    /\ op = NoOp
    /\ rd = NoReader

\* view.get(key)
PrefixedGet ==
    \E key \in PrefixedKeys :
        /\ op' = [name |-> "get", c |-> 2, key |-> key,
                  result |-> GetValue(2, key, "object", None, data)]
        /\ UNCHANGED <<heapVars, fired, stats, rd>>

\* set(view)
PrefixedIter ==
    /\ op' = [name |-> "iter", c |-> 2, key |-> <<>>,
              result |-> PrefixedIterate(2, data)]
    /\ UNCHANGED <<heapVars, fired, stats, rd>>

PrefixedNext == PrefixedGet \/ PrefixedIter
SpecPrefixed == PrefixedSpecInit /\ [][PrefixedNext]_vars

\* C12: through PrefixedConfig(p, c), get(k) is what c.get gives for the
\* delimited prefix followed by k, and iteration gives exactly the keys of the
\* record c holds under the bare prefix together with every key of c that
\* starts with the delimited prefix, stripped of it; no other key of c
\* contributes.
C12_PrefixedGetAndIterate ==
    LET bare == RStripDelimiter(prefix[2])
        delimited == Append(bare, NESTED_DELIMITER)
        nested == IF bare \in DOMAIN data[1].v /\ data[1].v[bare].t = "map"
                  THEN DOMAIN data[1].v[bare].v ELSE {}
        stripped == {rest \in Remainders : (delimited \o rest) \in DOMAIN data[1].v}
    IN  /\ op.name = "get" =>
              op.result = BaseGetValue(1, delimited \o op.key, "object", None, data)
        /\ op.name = "iter" => op.result = KeysV(nested \cup stripped)

\* {a.b: h, a.c: 2} under the prefix a: b read h and iteration gave b and c.
C12_Witness ==
    /\ op.name = "iter"
    /\ op.result = KeysV({sb, sc})
    /\ DOMAIN data[1].v = {sab, sac}
    /\ GetValue(2, sb, "object", None, data) = StrV(sh)
    /\ GetValue(2, sc, "object", None, data) = IntV(2)

\* C13: through the view, a string under the prefix that refers to a top-level
\* key of the delegate, outside the prefix, reads as that key's value.
C13_ReferenceReachesUnscopedKey ==
    (/\ op.name = "get"
     /\ GetRaw(1, prefix[2] \o op.key, data) = StrV(sRefY)
     /\ Entry(data[1], sy) # None)
        => op.result = ToStr(Entry(data[1], sy))

-----------------------------------------------------------------------------
(* CommandLineConfig.load over argument lists.                             *)

MaxCmdArgs == 3

CmdTokens ==
    ArgTokens \cup {<<"-", "-">>, <<"-", "=", "1">>, <<"-", "-", "X">>,
                    <<"-", "x", "=", " ">>, <<"b">>}
CmdArgLists == UNION {[1..n -> CmdTokens] : n \in 0..MaxCmdArgs}

\* config = CommandLineConfig()
CmdSpecInit ==
    /\ HeapIs(BaseInit(EmptyHeap(1), 1, "commandline"))
    /\ fired = [c \in 1..1 |-> 0]
    /\ stats = NoStats
    /\ op = NoOp
    /\ rd = NoReader

\* The end of CommandLineConfig.load, r being what the loop left.
CmdLoaded(args, r) ==
    /\ data' = IF r.raised THEN data ELSE [data EXCEPT ![1] = r.data]
    /\ op' = [name |-> "load", c |-> 1, args |-> args, raised |-> r.raised,
              error |-> r.error]
    /\ UNCHANGED <<kind, kids, prefix, lookup, callbacks, serial, loaded, fired,
                   stats, rd>>

\* config.load() with sys.argv[1:] = args
CmdLoad ==
    /\ op = NoOp
    /\ \E args \in CmdArgLists : CmdLoaded(args, ParseArgs(args, 1, MapV(EmptyF)))

SpecCommandLine == CmdSpecInit /\ [][CmdLoad]_vars

\* The grammar of one token, written from its characters.
Dashes(token) ==
    IF Len(token) >= 2 /\ token[1] = "-" /\ token[2] = "-" THEN 2
    ELSE IF Len(token) >= 1 /\ token[1] = "-" THEN 1
    ELSE 0
HasEquals(token) == \E i \in DOMAIN token : token[i] = "="
FirstEquals(token) == CHOOSE i \in DOMAIN token :
                          token[i] = "=" /\ \A j \in 1..(i - 1) : token[j] # "="
\* s without its leading and trailing blanks.
Trimmed(s) ==
    LET inked == {i \in DOMAIN s : s[i] # " "}
    IN  IF inked = {} THEN <<>>
        ELSE SubSeq(s, CHOOSE i \in inked : \A j \in inked : i <= j,
                       CHOOSE i \in inked : \A j \in inked : j <= i)
TokenKey(token) ==
    IF HasEquals(token)
    THEN Trimmed(SubSeq(token, Dashes(token) + 1, FirstEquals(token) - 1))
    ELSE SubSeq(token, Dashes(token) + 1, Len(token))
TokenValue(args, i) ==
    IF HasEquals(args[i])
    THEN Trimmed(SubSeq(args[i], FirstEquals(args[i]) + 1, Len(args[i])))
    ELSE args[i + 1]

\* The positions of args that hold an argument, as opposed to the value of
\* the argument before.
RECURSIVE ArgumentPositions(_, _)
ArgumentPositions(args, i) ==
    IF i > Len(args) THEN {}
    ELSE {i} \cup ArgumentPositions(args, IF HasEquals(args[i]) THEN i + 1 ELSE i + 2)

\* C14: a load that succeeds leaves a flat map of strings holding, for every
\* argument, its key with its value (the text around '=' trimmed, or the
\* token after a dashed token, which is not an argument itself), the last
\* argument of a key winning.
C14_ArgumentsToFlatMap ==
    (op.name = "load" /\ ~op.raised) =>
        LET at == ArgumentPositions(op.args, 1)
            last(k) == CHOOSE i \in at :
                           /\ Lower(TokenKey(op.args[i])) = Lower(k)
                           /\ \A j \in at : Lower(TokenKey(op.args[j])) = Lower(k) => j <= i
        IN  /\ data[1].t = "map"
            /\ {Lower(k) : k \in DOMAIN data[1].v} = {Lower(TokenKey(op.args[i])) : i \in at}
            /\ \A k \in DOMAIN data[1].v :
                   data[1].v[k] = StrV(TokenValue(op.args, last(k)))

\* --x=1 -y 2 X= 5 is not in reach of three tokens; -y --x=1 X= 5 left
\* y = "--x=1" and x = "5".
C14_Witness ==
    /\ op.name = "load" /\ ~op.raised
    /\ op.args = << <<"-", "y">>, <<"-", "-", "x", "=", "1">>, <<"X", "=", " ", "5">> >>
    /\ MapGet(data[1], sy) = StrV(<<"-", "-", "x", "=", "1">>)
    /\ MapGet(data[1], sx) = StrV(<<"5">>)

\* C15: load raises exactly when some argument has neither a dash nor '=',
\* or has '=' after an empty key, or is dashed without '=' and is the last
\* token, the error then naming its key; every other list loads.
C15_RaisesExactlyOnMalformed ==
    op.name = "load" =>
        LET at == ArgumentPositions(op.args, 1)
            malformed(i) ==
                \/ Dashes(op.args[i]) = 0 /\ ~HasEquals(op.args[i])
                \/ HasEquals(op.args[i]) /\ TokenKey(op.args[i]) = <<>>
            missing(i) ==
                Dashes(op.args[i]) > 0 /\ ~HasEquals(op.args[i]) /\ i = Len(op.args)
        IN  /\ op.raised <=> \E i \in at : malformed(i) \/ missing(i)
            /\ (op.raised /\ op.error[1] = "missing") =>
                   /\ missing(Len(op.args))
                   /\ op.error[2] = TokenKey(op.args[Len(op.args)])
            /\ (op.raised /\ op.error[1] = "format") =>
                   \E i \in at : malformed(i) /\ op.error[2] = op.args[i]

\* -y 2 --X: the last argument has no value and the error names X.
C15_Witness ==
    /\ op.name = "load" /\ op.raised
    /\ op.args = << <<"-", "y">>, <<"2">>, <<"-", "-", "X">> >>
    /\ op.error = <<"missing", sX>>
    /\ data[1] = MapV(EmptyF)

-----------------------------------------------------------------------------
(* The hops over '@next' of FileConfig, UrlConfig and S3Config.            *)

sNext == <<"@", "n", "e", "x", "t">>

\* What a reader parsed from a source: the mapping with its '@next' entry, if
\* any, and whether the reader returned it as an IgnoreCaseDict.
Raw(mapping, ignorecase) == [t |-> "raw", mapping |-> mapping, ignorecase |-> ignorecase]

\* A read that leaves '@next' in the mapping: get in place of pop.
GetNext(source) ==
    IF source.t # "raw" THEN source
    ELSE Parsed(source.mapping, MapGet(source.mapping, sNext), source.ignorecase)

\* data.pop('@next', None) on what was read.
PopNext(source) ==
    IF source.t # "raw" THEN source
    ELSE Parsed(DictV(SelectSeq(source.mapping.v, LAMBDA item : item[1] # sNext)),
                MapGet(source.mapping, sNext), source.ignorecase)

\* The values '@next' takes in the first source; None: the key is absent.
NextValues ==
    {None, StrV(sg), StrV(<<>>), IntV(0), IntV(1), BoolV(FALSE), BoolV(TRUE),
     ListV(<<>>), ListV(<<IntV(1)>>), DictV(<<>>), Dict1(sx, IntV(1))}
WithNext(body, next) ==
    IF next = None THEN body ELSE DictV(body.v \o << <<sNext, next>> >>)
Sources(bodies, nexts) ==
    {Missing, Unreadable}
        \cup {Raw(WithNext(b, n), s) : b \in bodies, n \in nexts, s \in BOOLEAN}
HopStores ==
    {[z \in {sf, sg, sh} |-> IF z = sf THEN first ELSE IF z = sg THEN second ELSE third] :
        first \in Sources({Dict2(sx, IntV(2), sa, Dict1(sb, IntV(5)))}, NextValues),
        second \in Sources({Dict2(sX, IntV(7), sa, Dict1(sp, IntV(7)))},
                           {None, StrV(sh), StrV(sf), IntV(0), IntV(1)}),
        third \in {Missing,
                   Raw(Dict2(sy, IntV(1), sx, IntV(9)), TRUE),
                   Raw(WithNext(Dict1(sy, IntV(1)), ListV(<<>>)), TRUE)}}

\* One FileConfig, UrlConfig or S3Config, its filename or url being f.
HopSpecInit ==
    \E k \in {"file", "url", "s3"} :
        /\ HeapIs(BaseInit(EmptyHeap(1), 1, k))
        /\ fired = [c \in 1..1 |-> 0]
        /\ stats = NoStats
        /\ op = NoOp
        /\ rd = NoReader

\* config.load() has returned or raised.
HopsLoaded(sources, r) ==
    /\ ~r.diverged
    /\ data' = r.data
    /\ op' = [name |-> "load", c |-> 1, store |-> sources, raised |-> r.raised,
              read |-> r.read]
    /\ UNCHANGED <<kind, kids, prefix, lookup, callbacks, serial, loaded, fired, stats, rd>>

\* config.load(), the names f, g and h holding sources.
HopsLoad ==
    /\ op = NoOp
    /\ \E sources \in HopStores :
          HopsLoaded(sources,
                     Load(1, [z \in DOMAIN sources |-> PopNext(sources[z])], <<>>, data))

SpecHops == HopSpecInit /\ [][HopsLoad]_vars

\* The '@next' entry of a source that was parsed, None without one.
NextOf(source) ==
    IF source.t # "raw" THEN None
    ELSE IF \E i \in DOMAIN source.mapping.v : source.mapping.v[i][1] = sNext
    THEN source.mapping.v[CHOOSE i \in DOMAIN source.mapping.v :
                              source.mapping.v[i][1] = sNext][2]
    ELSE None

\* The names a chain of string references visits from name, at most n of them.
RECURSIVE Visited(_, _, _)
Visited(sources, name, n) ==
    IF n = 0 THEN <<>>
    ELSE IF NextOf(sources[name]).t = "str" /\ NextOf(sources[name]).v # <<>>
    THEN <<name>> \o Visited(sources, NextOf(sources[name]).v, n - 1)
    ELSE <<name>>

\* The items of a parsed source other than '@next'.
ItemsOf(source) == {source.mapping.v[i] : i \in DOMAIN source.mapping.v} \ {<<sNext, NextOf(source)>>}

\* C16: FileConfig.load visits the files the '@next' references lead to in
\* order; what it leaves has every key of every file visited and no '@next',
\* the value of a key being the one of the last file holding it (records of
\* the same key are combined key by key); a visited file that does not exist
\* makes load fail.
C16_FileChainMergedInOrder ==
    (op.name = "load" /\ kind[1] = "file") =>
        LET names == Visited(op.store, sf, MaxHops + 1)
            holders(k) == {i \in DOMAIN names :
                              \E item \in ItemsOf(op.store[names[i]]) : Lower(item[1]) = Lower(k)}
            last(k) == CHOOSE i \in holders(k) : \A j \in holders(k) : j <= i
            valueAt(i, k) == (CHOOSE item \in ItemsOf(op.store[names[i]]) :
                                  Lower(item[1]) = Lower(k))[2]
        IN  /\ (\E i \in DOMAIN names : op.store[names[i]] = Missing) => op.raised
            /\ ~op.raised =>
                  /\ op.read = Len(names)
                  /\ \A k \in MapKeys(data[1]) : Lower(k) # Lower(sNext) /\ holders(k) # {}
                  /\ \A i \in DOMAIN names : \A item \in ItemsOf(op.store[names[i]]) :
                         /\ MapGet(data[1], item[1]) # None
                         /\ (i = last(item[1]) /\ ~IsMapping(item[2]))
                                => MapGet(data[1], item[1]) = item[2]
                         /\ IsMapping(item[2]) =>
                                \A q \in MapKeys(item[2]) :
                                    MapGet(MapGet(data[1], item[1]), q) = MapGet(item[2], q)

\* f refers to g and g to h: the three files were read, x is h's and a has
\* the keys of f's and of g's record.
C16_Witness ==
    /\ op.name = "load" /\ kind[1] = "file" /\ ~op.raised
    /\ op.read = 3
    /\ NextOf(op.store[sf]) = StrV(sg) /\ NextOf(op.store[sg]) = StrV(sh)
    /\ MapGet(data[1], sx) = IntV(9)
    /\ MapGet(data[1], sy) = IntV(1)
    /\ MapKeys(MapGet(data[1], sa)) = {sb, sp}

\* C17: in a FileConfig, a UrlConfig and an S3Config alike, a source that is
\* read and holds an '@next' that is not a string makes load fail, whatever
\* the value; a load that succeeds ended at a source without '@next'.
C17_NonStringNextFails ==
    op.name = "load" =>
        LET names == Visited(op.store, sf, MaxHops + 1)
            reached(i) == \A j \in 1..i : op.store[names[j]].t = "raw"
        IN  /\ \A i \in DOMAIN names :
                   (/\ reached(i)
                    /\ NextOf(op.store[names[i]]) # None
                    /\ NextOf(op.store[names[i]]).t # "str") => op.raised
            /\ (~op.raised /\ reached(Len(names)))
                   => NextOf(op.store[names[Len(names)]]) = None

-----------------------------------------------------------------------------
(* The reader registry and the built-in readers, as FileConfig and S3Config *)
(* use them to load a well-formed file.                                     *)

\* str.rfind(ch): the greatest index holding ch, 0 when there is none.
LastIndexOf(s, ch) ==
    LET hits == {i \in DOMAIN s : s[i] = ch}
    IN  IF hits = {} THEN 0 ELSE CHOOSE i \in hits : \A j \in hits : j <= i

\* get_file_ext(filename): os.path.splitext(filename)[1].strip('.').  The
\* extension starts at the last dot of the last path component, unless only
\* dots come before it there.
get_file_ext(filename) ==
    LET sep == LastIndexOf(filename, "/")
        dot == LastIndexOf(filename, ".")
    IN  IF dot > sep /\ \E j \in (sep + 1)..(dot - 1) : filename[j] # "."
        THEN SubSeq(filename, dot + 1, Len(filename))
        ELSE <<>>

IniReader == [t |-> "reader", v |-> "IniReader"]
JsonReader == [t |-> "reader", v |-> "JsonReader"]
YamlReader == [t |-> "reader", v |-> "YamlReader"]

\* The registry after the import of the readers module: the three add_reader
\* calls at the end of the module.
Readers ==
    (<<"i", "n", "i">> :> IniReader) @@ (<<"j", "s", "o", "n">> :> JsonReader)
        @@ (<<"y", "a", "m", "l">> :> YamlReader)

\* A registry that also knows yml.
get_reader_with_yml(name) ==
    IF name \in DOMAIN Readers THEN Readers[name]
    ELSE IF name = <<"y", "m", "l">> THEN YamlReader
    ELSE None

\* get_reader(name): __readers.get(name)
get_reader(name) == IF name \in DOMAIN Readers THEN Readers[name] ELSE None

\* _get_reader(filename) of FileConfig and of S3Config, yaml telling whether
\* the YAML library is installed: YamlReader() raises without it.
GetReaderFound(reader_cls, yaml) ==
    IF reader_cls = None THEN Err("ConfigError")
    ELSE IF reader_cls = YamlReader /\ ~yaml THEN Err("LibraryRequiredError")
    ELSE reader_cls
GetReader(filename, yaml) ==
    IF get_file_ext(filename) = <<>> THEN Err("ConfigError")
    ELSE GetReaderFound(get_reader(get_file_ext(filename)), yaml)

\* A well-formed document: sections (objects) of options (members) with
\* their text, the same in each format.
Documents ==
    { << <<sa, << <<sb, sh>> >> >> >>,
      << <<sa, << <<sB, sh>>, <<sc, sx>> >> >> >>,
      << <<sX, << <<sb, sh>> >> >>, <<sy, << <<sp, sq>> >> >> >>,
      << <<sx, << <<sB, sy>> >> >> >>,
      <<>> }

\* IniReader.read: a dict of the sections, each a dict of its options (which
\* the parser gives in lower case) with their raw text.
IniRead(doc) ==
    Raw(DictV([i \in DOMAIN doc |->
                  <<doc[i][1], DictV([j \in DOMAIN doc[i][2] |->
                                         <<Lower(doc[i][2][j][1]), StrV(doc[i][2][j][2])>>])>>]),
        FALSE)

\* JsonReader.read: json.load(stream), dicts of the objects.  yaml.load gives
\* the same of a YAML document.
JsonRead(doc) ==
    Raw(DictV([i \in DOMAIN doc |->
                  <<doc[i][1], DictV([j \in DOMAIN doc[i][2] |->
                                         <<doc[i][2][j][1], StrV(doc[i][2][j][2])>>])>>]),
        FALSE)

\* reader.read(text_reader) of the reader resolved, Unreadable when resolving
\* it raised.
ReaderRead(reader, doc) ==
    IF IsErr(reader) THEN Unreadable
    ELSE IF reader = IniReader THEN IniRead(doc)
    ELSE JsonRead(doc)

cIni == <<"c", ".", "i", "n", "i">>
cJson == <<"c", ".", "j", "s", "o", "n">>
cYaml == <<"c", ".", "y", "a", "m", "l">>
cYml == <<"c", ".", "y", "m", "l">>
FileNames ==
    {cIni, cJson, cYaml, cYml,
     <<"c", ".", "t", "x", "t">>, <<"c">>, <<"c", ".">>, <<".", "i", "n", "i">>,
     <<"c", ".", "J", "S", "O", "N">>, <<"a", ".", "b", "/", "c">>,
     <<"a", "/", "c", ".", "i", "n", "i">>, <<"c", ".", "i", "n", "i", ".", "j", "s", "o", "n">>}

\* One FileConfig or S3Config without an explicit reader.
ReaderSpecInit ==
    \E k \in {"file", "s3"} :
        /\ HeapIs(BaseInit(EmptyHeap(1), 1, k))
        /\ fired = [c \in 1..1 |-> 0]
        /\ stats = NoStats
        /\ op = NoOp
        /\ rd = NoReader

\* config.load() has returned or raised.
ReaderLoaded(filename, doc, reader, r) ==
    /\ data' = r.data
    /\ op' = [name |-> "load", c |-> 1, filename |-> filename, doc |-> doc,
              reader |-> reader, raised |-> r.raised]
    /\ UNCHANGED <<kind, kids, prefix, lookup, callbacks, serial, loaded, fired, stats, rd>>

\* load() of the config over the one file there is, read by the reader
\* resolved for its name.
ReaderLoadOf(filename, doc, reader, parsed) ==
    ReaderLoaded(filename, doc, reader,
        IF kind[1] = "file"
        THEN FileLoaded(1, data, FileHops(1, filename :> parsed, StrV(filename), <<>>,
                                          data, MaxHops))
        ELSE S3Loaded(1, data, S3Read(1, filename :> parsed, filename, DictV(<<>>),
                                      data, MaxHops, 0)))

\* config = FileConfig(filename) or S3Config(client, bucket, filename), then
\* config.load(), the file holding a well-formed document.
ReaderLoad ==
    \E filename \in FileNames : \E doc \in Documents : \E yaml \in BOOLEAN :
        ReaderLoadOf(filename, doc, GetReader(filename, yaml),
                     PopNext(ReaderRead(GetReader(filename, yaml), doc)))

SpecReaders == ReaderSpecInit /\ [][ReaderLoad]_vars

\* C18: a FileConfig loads a well-formed .ini or .json file with the reader
\* the registry gives for it without an error, the reader having returned a
\* Case-Insensitive Map.
C18_BuiltInReadersPassShapeCheck ==
    (op.name = "load" /\ kind[1] = "file" /\ op.reader \in {IniReader, JsonReader})
        => ~op.raised

\* filename ends with a dot and e, after at least one character of its last
\* component that is not a dot.
EndsWith(s, tail) == Len(s) > Len(tail) /\ SubSeq(s, Len(s) - Len(tail) + 1, Len(s)) = tail
HasExt(filename, e) ==
    /\ EndsWith(filename, <<".">> \o e)
    /\ filename[Len(filename) - Len(e) - 1] \notin {".", "/"}
eIni == <<"i", "n", "i">>
eJson == <<"j", "s", "o", "n">>
eYaml == <<"y", "a", "m", "l">>
eYml == <<"y", "m", "l">>

\* C19 as claimed: with the YAML library there, a name with the extension
\* ini, json, yaml or yml resolves to its reader, yaml and yml both to the
\* YAML reader; any other name is a ConfigError.
C19_YmlResolvesToYamlReader ==
    op.name = "load" =>
        /\ HasExt(op.filename, eIni) => op.reader = IniReader
        /\ HasExt(op.filename, eJson) => op.reader = JsonReader
        /\ (HasExt(op.filename, eYaml) \/ HasExt(op.filename, eYml)) =>
               op.reader \in {YamlReader, Err("LibraryRequiredError")}
        /\ (\A e \in {eIni, eJson, eYaml, eYml} : ~HasExt(op.filename, e))
               => op.reader = Err("ConfigError")

\* C19: resolution by extension succeeds for ini, json and yaml (the YAML
\* reader, which needs its library, else LibraryRequiredError); for yml, any
\* other extension and a name without one it is a ConfigError.
C19_RegistryResolvesIniJsonYaml ==
    op.name = "load" =>
        /\ HasExt(op.filename, eIni) => op.reader = IniReader
        /\ HasExt(op.filename, eJson) => op.reader = JsonReader
        /\ HasExt(op.filename, eYaml) =>
               op.reader \in {YamlReader, Err("LibraryRequiredError")}
        /\ (\A e \in {eIni, eJson, eYaml} : ~HasExt(op.filename, e))
               => op.reader = Err("ConfigError")

\* c.yaml resolved to the YAML reader, c.yml to a ConfigError.
C19_Witness ==
    /\ op.name = "load" /\ op.filename = cYaml /\ op.reader = YamlReader
    /\ GetReader(cYml, TRUE) = Err("ConfigError")
    /\ GetReader(cIni, TRUE) = IniReader
    /\ GetReader(cJson, TRUE) = JsonReader

\* C20: after load, two keys that differ only in the case of their letters
\* read the same.
C20_KeysMatchIgnoringCase ==
    (op.name = "load" /\ ~op.raised) =>
        \A key \in {sX, sx, sAB, sab, <<"x", ".", "B">>, <<"x", ".", "b">>} :
            GetRaw(1, key, data) = GetRaw(1, Lower(key), data)

-----------------------------------------------------------------------------
(* UrlConfig._get_reader: the reader for a response, by its content type    *)
(* and by the url.                                                          *)

\* 'application/json;charset=iso-8859-1'
ctJsonCharset ==
    <<"a", "p", "p", "l", "i", "c", "a", "t", "i", "o", "n", "/", "j", "s", "o", "n", ";", "c", "h", "a", "r", "s", "e", "t", "=", "i", "s", "o", "-", "8", "8", "5", "9", "-", "1">>
\* 'text/vnd.yaml'
ctVndYaml ==
    <<"t", "e", "x", "t", "/", "v", "n", "d", ".", "y", "a", "m", "l">>
\* 'text/yaml'
ctYaml ==
    <<"t", "e", "x", "t", "/", "y", "a", "m", "l">>
\* 'text/x-yaml'
ctXYaml ==
    <<"t", "e", "x", "t", "/", "x", "-", "y", "a", "m", "l">>
\* 'text/plain'
ctPlain ==
    <<"t", "e", "x", "t", "/", "p", "l", "a", "i", "n">>
\* 'application/vnd.x-json'
ctVndXJson ==
    <<"a", "p", "p", "l", "i", "c", "a", "t", "i", "o", "n", "/", "v", "n", "d", ".", "x", "-", "j", "s", "o", "n">>
\* 'json'
ctBare ==
    <<"j", "s", "o", "n">>
\* 'application/JSON'
ctUpper ==
    <<"a", "p", "p", "l", "i", "c", "a", "t", "i", "o", "n", "/", "J", "S", "O", "N">>
\* 'text/x-ini.v2'
ctIniDotV ==
    <<"t", "e", "x", "t", "/", "x", "-", "i", "n", "i", ".", "v", "2">>
\* 'http://h.io/c.json'
urlJson ==
    <<"h", "t", "t", "p", ":", "/", "/", "h", ".", "i", "o", "/", "c", ".", "j", "s", "o", "n">>
\* 'http://h/c.json'
urlShort ==
    <<"h", "t", "t", "p", ":", "/", "/", "h", "/", "c", ".", "j", "s", "o", "n">>
\* 'http://abc/c.json'
urlAt10 ==
    <<"h", "t", "t", "p", ":", "/", "/", "a", "b", "c", "/", "c", ".", "j", "s", "o", "n">>
\* 'http://abcd/c.json'
urlAt11 ==
    <<"h", "t", "t", "p", ":", "/", "/", "a", "b", "c", "d", "/", "c", ".", "j", "s", "o", "n">>
\* 'http://h.io/c'
urlNoExt ==
    <<"h", "t", "t", "p", ":", "/", "/", "h", ".", "i", "o", "/", "c">>
\* 'http://h.io/c.yml'
urlYml ==
    <<"h", "t", "t", "p", ":", "/", "/", "h", ".", "i", "o", "/", "c", ".", "y", "m", "l">>
\* 'http://h.io/c.ini/'
urlIniSlash ==
    <<"h", "t", "t", "p", ":", "/", "/", "h", ".", "i", "o", "/", "c", ".", "i", "n", "i", "/">>
\* ' http://h.io/c.yaml '
urlSpaces ==
    <<" ", "h", "t", "t", "p", ":", "/", "/", "h", ".", "i", "o", "/", "c", ".", "y", "a", "m", "l", " ">>
ContentTypes == {None, StrV(<<>>), StrV(ctJsonCharset), StrV(ctVndYaml), StrV(ctYaml), StrV(ctXYaml), StrV(ctPlain), StrV(ctVndXJson), StrV(ctBare), StrV(ctUpper), StrV(ctIniDotV)}
Urls == {urlJson, urlShort, urlAt10, urlAt11, urlNoExt, urlYml, urlIniSlash, urlSpaces}

Contains(s, ch) == \E i \in DOMAIN s : s[i] = ch
\* s.split(ch)[-1]
SplitLast(s, ch) == SubSeq(s, LastIndexOf(s, ch) + 1, Len(s))
\* s.split(ch)[0]
SplitFirst(s, ch) == IF Contains(s, ch) THEN SubSeq(s, 1, IndexOf(s, ch, 1) - 1) ELSE s
\* s.rstrip('/')
RECURSIVE RStripSlash(_)
RStripSlash(s) ==
    IF s # <<>> /\ s[Len(s)] = "/" THEN RStripSlash(SubSeq(s, 1, Len(s) - 1)) ELSE s

\* The name the mime type gives, the ';' parameters already removed.
MimeName(mime) ==
    IF Contains(mime, ".") THEN <<SplitLast(mime, ".")>>
    ELSE IF Contains(mime, "-") THEN <<SplitLast(mime, "-")>>
    ELSE IF Contains(mime, "/") THEN <<SplitLast(mime, "/")>>
    ELSE <<>>

\* Names taken from the content type with its ';' parameters left in.
ContentTypeNamesWithParameters(content_type) ==
    IF ~Truthy(content_type) THEN <<>> ELSE MimeName(content_type.v)

\* The names _get_reader takes from the content type.
ContentTypeNames(content_type) ==
    IF ~Truthy(content_type) THEN <<>> ELSE MimeName(SplitFirst(content_type.v, ";"))

\* The names _get_reader takes from the url: path is url.strip().rstrip('/'),
\* i (counted from 0) the place of its last '/'.
PathNames(path) ==
    IF LastIndexOf(path, "/") - 1 > 10
           /\ Contains(SubSeq(path, LastIndexOf(path, "/"), Len(path)), ".")
    THEN <<SplitLast(path, ".")>>
    ELSE <<>>
UrlNames(url) == PathNames(RStripSlash(Strip(url)))

\* The loop over names: the first name with a registered reader class gives
\* the reader, constructed; without one, ConfigError.
RECURSIVE FirstReader(_, _, _)
FirstReader(names, i, yaml) ==
    IF i > Len(names) THEN Err("ConfigError")
    ELSE IF get_reader(names[i]) # None THEN GetReaderFound(get_reader(names[i]), yaml)
    ELSE FirstReader(names, i + 1, yaml)

\* UrlConfig._get_reader(url, content_type)
UrlGetReader(url, content_type, yaml) ==
    FirstReader(ContentTypeNames(content_type) \o UrlNames(url), 1, yaml)

\* config = UrlConfig(url)
UrlReaderSpecInit ==
    /\ HeapIs(BaseInit(EmptyHeap(1), 1, "url"))
    /\ fired = [c \in 1..1 |-> 0]
    /\ stats = NoStats
    /\ op = NoOp
    /\ rd = NoReader

\* config.load() has returned or raised.
UrlReaderLoaded(url, content_type, reader, r) ==
    /\ data' = r.data
    /\ op' = [name |-> "load", c |-> 1, url |-> url, content_type |-> content_type,
              reader |-> reader, raised |-> r.raised]
    /\ UNCHANGED <<kind, kids, prefix, lookup, callbacks, serial, loaded, fired, stats, rd>>

\* The load of the one response there is, read by the reader resolved.
UrlReaderLoadOf(url, content_type, reader, parsed) ==
    UrlReaderLoaded(url, content_type, reader,
        UrlLoaded(1, data, UrlHops(1, url :> parsed, StrV(url), <<>>, data, MaxHops)))

\* config = UrlConfig(url); config.load(), the response having the content
\* type and a well-formed body.
UrlReaderLoad ==
    \E url \in Urls : \E content_type \in ContentTypes : \E doc \in Documents :
        \E yaml \in BOOLEAN :
            UrlReaderLoadOf(url, content_type, UrlGetReader(url, content_type, yaml),
                            PopNext(ReaderRead(UrlGetReader(url, content_type, yaml), doc)))

SpecUrlReader == UrlReaderSpecInit /\ [][UrlReaderLoad]_vars

\* The readers the names stand for in the registry, in order.
Registered(names) == SelectSeq(names, LAMBDA n : n \in DOMAIN Readers)
\* What constructing the reader of a registered name gives.
Constructs(reader, name) ==
    \/ reader = Readers[name]
    \/ name = eYaml /\ reader = Err("LibraryRequiredError")
\* The mime type of the response: the content type up to its first ';'.
MimeOf(content_type) ==
    IF content_type.t # "str" THEN <<>>
    ELSE SubSeq(content_type.v, 1,
                Len(content_type.v) - Cardinality({i \in DOMAIN content_type.v :
                    \E j \in 1..i : content_type.v[j] = ";"}))
\* The text of s after its last character of seps; nothing when it has none.
AfterLastOf(s, seps) ==
    IF \A i \in DOMAIN s : s[i] \notin seps THEN <<>>
    ELSE <<SubSeq(s, 1 + CHOOSE i \in DOMAIN s :
                     s[i] \in seps /\ \A j \in (i + 1)..Len(s) : s[j] \notin seps, Len(s))>>
\* The suffix of the url's last component after its last dot, when the
\* component starts after position 10.
SuffixOf(url) ==
    LET trimmed == RStripSlash(Strip(url))
        slash == CHOOSE i \in DOMAIN trimmed :
                     trimmed[i] = "/" /\ \A j \in (i + 1)..Len(trimmed) : trimmed[j] # "/"
    IN  IF slash - 1 > 10 THEN AfterLastOf(SubSeq(trimmed, slash, Len(trimmed)), {"."})
        ELSE <<>>
\* reader is what the first registered of names gives, ConfigError without one.
ResolvesFrom(reader, names) ==
    IF Registered(names) = <<>> THEN reader = Err("ConfigError")
    ELSE Constructs(reader, Head(Registered(names)))

-----------------------------------------------------------------------------
(* EventHandler on its own: one handler, its callbacks in callbacks[1].    *)

MaxCallbacks == 3

\* The callables the application has: two that return and one that raises.
\* NotCallable is an object that cannot be called.
Callables == {Observer(1, FALSE), Observer(2, FALSE), Observer(3, TRUE)}
NotCallable == [type |-> "object", owner |-> 0, fails |-> FALSE]

\* What calling a callback returns.
ResultOf(cb) == IntV(cb.owner)

\* An invocation that calls a callback registered several times only once.
RECURSIVE CallAllOncePerCallback(_, _, _)
CallAllOncePerCallback(cbs, i, acc) ==
    IF i > Len(cbs) THEN acc
    ELSE IF cbs[i].fails
    THEN [acc EXCEPT !.calls = Append(@, cbs[i]), !.raised = TRUE]
    ELSE IF \E j \in 1..(i - 1) : cbs[j] = cbs[i]
    THEN CallAllOncePerCallback(cbs, i + 1, acc)
    ELSE CallAllOncePerCallback(cbs, i + 1,
             [acc EXCEPT !.calls = Append(@, cbs[i]),
                         !.results = Append(@, ResultOf(cbs[i]))])

\* EventHandler.__call__: [callback(*args) for callback in self._callbacks];
\* a callback that raises ends the comprehension and nothing is returned.
RECURSIVE CallAll(_, _, _)
CallAll(cbs, i, acc) ==
    IF i > Len(cbs) THEN acc
    ELSE IF cbs[i].fails
    THEN [acc EXCEPT !.calls = Append(@, cbs[i]), !.raised = TRUE]
    ELSE CallAll(cbs, i + 1,
             [acc EXCEPT !.calls = Append(@, cbs[i]),
                         !.results = Append(@, ResultOf(cbs[i]))])

\* A remove that takes out every registration of the callback.
ListRemoveAll(cbs, cb) == SelectSeq(cbs, LAMBDA x : x # cb)

\* list.remove(x): the list without the first item equal to x.
ListRemove(cbs, cb) ==
    LET first == CHOOSE i \in DOMAIN cbs : cbs[i] = cb /\ \A j \in 1..(i - 1) : cbs[j] # cb
    IN  SubSeq(cbs, 1, first - 1) \o SubSeq(cbs, first + 1, Len(cbs))

\* handler = EventHandler(after_add_func, after_remove_func), each hook given
\* or not.
EventSpecInit ==
    /\ HeapIs(EmptyHeap(1))
    /\ fired = [c \in 1..1 |-> 0]
    /\ \E add \in BOOLEAN : \E remove \in BOOLEAN :
          stats = [after_add_func |-> add, after_remove_func |-> remove]
    /\ op = NoOp
    /\ rd = NoReader

\* handler.add(callback); hooks counts the calls of the after-add hook.
EventAdd ==
    \E cb \in Callables \cup {NotCallable} :
        /\ Len(callbacks[1]) < MaxCallbacks
        /\ callbacks' = IF cb.type = "object" THEN callbacks
                        ELSE [callbacks EXCEPT ![1] = Append(@, cb)]
        /\ op' = [name |-> "add", cb |-> cb, before |-> callbacks[1],
                  raised |-> cb.type = "object",
                  hooks |-> IF cb.type # "object" /\ stats.after_add_func THEN 1 ELSE 0]
        /\ UNCHANGED <<kind, kids, prefix, data, lookup, serial, loaded, fired, stats, rd>>

\* handler.remove(callback): TypeError for an object that is not callable,
\* ValueError from list.remove for a callable that is not in the list.
EventRemove ==
    \E cb \in Callables \cup {NotCallable} :
        LET absent == \A i \in DOMAIN callbacks[1] : callbacks[1][i] # cb
        IN  /\ callbacks' = IF absent THEN callbacks
                            ELSE [callbacks EXCEPT ![1] = ListRemove(@, cb)]
            /\ op' = [name |-> "remove", cb |-> cb, before |-> callbacks[1],
                      raised |-> absent,
                      hooks |-> IF ~absent /\ stats.after_remove_func THEN 1 ELSE 0]
            /\ UNCHANGED <<kind, kids, prefix, data, lookup, serial, loaded, fired, stats, rd>>

\* handler()
EventCall ==
    /\ op' = [name |-> "call", before |-> callbacks[1]]
                @@ CallAll(callbacks[1], 1, [calls |-> <<>>, results |-> <<>>, raised |-> FALSE])
    /\ UNCHANGED <<heapVars, fired, stats, rd>>

EventNext == EventAdd \/ EventRemove \/ EventCall
SpecEvent == EventSpecInit /\ [][EventNext]_vars

\* C22: an invocation that returns has called the callbacks of the list, one
\* call per registration and in the order of registration, and returns their
\* results in that order; one that raises has called the registrations up to
\* the one that raised.
C22_CallsEveryRegistrationInOrder ==
    op.name = "call" =>
        /\ ~op.raised => /\ op.calls = callbacks[1]
                         /\ op.results = [i \in DOMAIN callbacks[1] |-> IntV(callbacks[1][i].owner)]
        /\ op.raised => /\ Len(op.calls) <= Len(callbacks[1])
                        /\ op.calls = SubSeq(callbacks[1], 1, Len(op.calls))
                        /\ op.calls[Len(op.calls)].fails

\* The callback 1 registered twice around callback 2 was called twice.
C22_Witness ==
    /\ op.name = "call" /\ ~op.raised
    /\ callbacks[1] = <<Observer(1, FALSE), Observer(2, FALSE), Observer(1, FALSE)>>
    /\ op.results = <<IntV(1), IntV(2), IntV(1)>>

\* C23: a remove of a callable that is not registered raises, leaves the list
\* as it was and calls no hook; a remove of a registered one takes out one
\* registration of it, leaves the others in their order and calls the
\* after-remove hook once.
C23_RemoveOneRegistrationOrFail ==
    (op.name = "remove" /\ op.cb \in Callables) =>
        LET registered == \E i \in DOMAIN op.before : op.before[i] = op.cb
            count(cbs, x) == Cardinality({i \in DOMAIN cbs : cbs[i] = x})
        IN  /\ op.raised <=> ~registered
            /\ ~registered => callbacks[1] = op.before /\ op.hooks = 0
            /\ registered =>
                  /\ count(callbacks[1], op.cb) = count(op.before, op.cb) - 1
                  /\ SelectSeq(callbacks[1], LAMBDA x : x # op.cb)
                         = SelectSeq(op.before, LAMBDA x : x # op.cb)
                  /\ Len(callbacks[1]) = Len(op.before) - 1
                  /\ op.hooks = IF stats.after_remove_func THEN 1 ELSE 0

\* Callback 1, registered twice, was removed once: one registration is left
\* and the hook was called.
C23_Witness ==
    /\ op.name = "remove" /\ ~op.raised /\ op.hooks = 1
    /\ op.cb = Observer(1, FALSE)
    /\ op.before = <<Observer(1, FALSE), Observer(2, FALSE), Observer(1, FALSE)>>
    /\ callbacks[1] = <<Observer(2, FALSE), Observer(1, FALSE)>>

-----------------------------------------------------------------------------
(* A stack of configs: a MemoryConfig and a FileConfig under a ChainConfig  *)
(* or a MergeConfig, a PrefixedConfig over that and a ReloadConfig on top.  *)
(* stats.keys_cached[c] is ChainConfig._keys_cached of config c.            *)

StackHeap(k) ==
    LET sources == BaseInit(MemoryInit(EmptyHeap(5), 1, Dict1(sx, IntV(1))), 2, "file")
        composite == IF k = "chain" THEN ChainInit(sources, 3, <<1, 2>>)
                     ELSE MergeInit(sources, 3, <<1, 2>>)
    IN  ReloadInit(PrefixedInit(composite, 4, sa, 3), 5, 4)

\* What the file f (and the file g it may refer to) holds at a load.
StackStores ==
    {[z \in {sf, sg} |-> IF z = sf THEN first ELSE Parsed(Dict1(sX, IntV(7)), None, TRUE)] :
        first \in {Missing,
                   Parsed(Dict1(sx, IntV(2)), None, TRUE),
                   Parsed(Dict2(sy, IntV(2), sa, Dict1(sb, IntV(5))), None, TRUE),
                   Parsed(Dict1(sy, IntV(5)), StrV(sg), TRUE)}}

StackSpecInit ==
    /\ \E k \in {"chain", "merge"} : HeapIs(StackHeap(k))
    /\ fired = [c \in 1..5 |-> 0]
    /\ stats = [keys_cached |-> [c \in 1..5 |-> None]]
    /\ op = NoOp
    /\ rd = NoReader

\* A load that ends with self.updated().
LoadNotifiesSelf(c) == <<c>>

\* The configs whose updated event a load() of c invokes, in order: no load
\* method calls self.updated(), and loading gives the children's events no
\* cause to fire.
LoadNotifies(c) == <<>>

\* The counts of invocations after the events of cs have been invoked in turn.
RECURSIVE FireAll(_, _, _)
FireAll(cs, i, acc) ==
    IF i > Len(cs) THEN acc ELSE FireAll(cs, i + 1, Fire(cs[i], sx, data, acc))

\* ChainConfig._config_updated resets the cache of keys of every chain whose
\* event was invoked.
CacheAfter(newFired) ==
    [keys_cached |-> [c \in 1..5 |->
        IF kind[c] = "chain" /\ newFired[c] > fired[c] THEN None
        ELSE stats.keys_cached[c]]]

\* config.load() has returned or raised.
StackLoaded(c, r, out) ==
    /\ ~r.diverged
    /\ data' = r.data
    /\ loaded' = IF kind[c] = "reload" /\ ~r.raised THEN [loaded EXCEPT ![c] = TRUE]
                 ELSE loaded
    /\ fired' = out.fired
    /\ stats' = CacheAfter(out.fired)
    /\ op' = [name |-> "load", c |-> c, raised |-> r.raised]
    /\ UNCHANGED <<kind, kids, prefix, lookup, callbacks, serial, rd>>

\* load() on any config of the stack.
StackLoad ==
    \E c \in 1..5 : \E store \in StackStores :
        StackLoaded(c, Load(c, store, <<>>, data),
                    FireAll(LoadNotifies(c), 1,
                            [fired |-> fired, seen |-> <<>>, raised |-> FALSE]))

\* MemoryConfig.set on the memory source, once per behaviour and key.
StackSet ==
    \E key \in {sx, sy} : \E value \in {IntV(2), IntV(3)} :
        /\ fired[1] < MaxFires
        /\ LET r == MemorySet(1, key, value)
           IN  /\ data' = r.data
               /\ fired' = r.out.fired
               /\ stats' = CacheAfter(r.out.fired)
               /\ op' = [name |-> "set", c |-> 1, raised |-> r.out.raised]
        /\ UNCHANGED <<kind, kids, prefix, lookup, callbacks, serial, loaded, rd>>

\* The periodic callback of the ReloadConfig, once it has been scheduled:
\* the delegate is loaded, then the event is invoked.
StackTicked(r, out) ==
    /\ ~r.diverged
    /\ data' = r.data
    /\ fired' = out.fired
    /\ stats' = CacheAfter(out.fired)
    /\ op' = [name |-> "reload", c |-> 5, raised |-> FALSE]
    /\ UNCHANGED <<kind, kids, prefix, lookup, callbacks, serial, loaded, rd>>
StackTick ==
    /\ loaded[5]
    /\ fired[5] < MaxFires
    /\ \E store \in StackStores :
          StackTicked(Load(4, store, <<>>, data),
                      Fire(5, sx, data, [fired |-> fired, seen |-> <<>>, raised |-> FALSE]))

\* ChainConfig._build_cached_keys: an IgnoreCaseDict with every key of every
\* child, in the order of the children.
RECURSIVE BuildCachedKeys(_, _, _, _)
BuildCachedKeys(configs, i, todo, keys) ==
    IF i > Len(configs) THEN keys
    ELSE IF todo = {}
    THEN BuildCachedKeys(configs, i + 1,
                         IF i + 1 > Len(configs) THEN {} ELSE Iterate(configs[i + 1], data), keys)
    ELSE LET key == CHOOSE k \in todo : TRUE
         IN  BuildCachedKeys(configs, i, todo \ {key}, MapSet(keys, key, BoolV(TRUE)))

\* ChainConfig._get_cached_keys: the cache, built when there is none.
GetCachedKeys(c) ==
    IF stats.keys_cached[c] = None
    THEN BuildCachedKeys(kids[c], 1, Iterate(kids[c][1], data), MapV(EmptyF))
    ELSE stats.keys_cached[c]

\* set(chain) and len(chain)
StackIter ==
    /\ kind[3] = "chain"
    /\ stats' = [keys_cached |-> [stats.keys_cached EXCEPT ![3] = GetCachedKeys(3)]]
    /\ op' = [name |-> "iter", c |-> 3, keys |-> MapKeys(GetCachedKeys(3)),
              len |-> Cardinality(MapKeys(GetCachedKeys(3)))]
    /\ UNCHANGED <<heapVars, fired, rd>>

StackNext == StackLoad \/ StackSet \/ StackTick \/ StackIter
SpecStack == StackSpecInit /\ [][StackNext]_vars

\* C24: a load() of any config of the stack leaves the count of invocations
\* of every config's update event as it was; the count of an event changes
\* only in a MemoryConfig.set and in the periodic callback of the
\* ReloadConfig.
C24_LoadFiresNoEvent ==
    [][/\ op'.name = "load" => fired' = fired
       /\ fired' # fired => op'.name \in {"set", "reload"}]_vars

\* A load of the FileConfig under the composite changed its data after a set
\* had fired the events of the memory source and of the composite once.
C24_Witness ==
    /\ op.name = "load" /\ op.c = 2 /\ ~op.raised
    /\ MapGet(data[2], sy) = IntV(2)
    /\ fired = <<1, 0, 1, 0, 0>>

\* C28: the keys an iteration of the chain gives, and its length, are the
\* union of the children's current keys, keys that differ only in case being
\* one key.
C28_ChainKeysAreChildrenKeys ==
    op.name = "iter" =>
        LET current == UNION {{Lower(k) : k \in MapKeys(data[kids[3][i]])} :
                                  i \in DOMAIN kids[3]}
        IN  /\ {Lower(k) : k \in op.keys} = current
            /\ op.len = Cardinality(current)

-----------------------------------------------------------------------------
(* Reads whose key argument may be None.  The key is None or StrV(s).      *)

\* get_raw(key) of config c, the key being None or a string.
RECURSIVE CallGetRaw(_, _, _)
\* ChainConfig.get_raw's loop, an exception of a child leaving the loop.
RECURSIVE ChainCallGetRaw(_, _, _, _)
ChainCallGetRaw(c, i, key, d) ==
    IF i = 0 THEN None
    ELSE LET value == CallGetRaw(kids[c][i], key, d)
         IN  IF value # None THEN value ELSE ChainCallGetRaw(c, i - 1, key, d)
CallGetRaw(c, key, d) ==
    CASE kind[c] \in DataKinds ->
           IF key = None THEN Err("TypeError") ELSE BaseGetRaw(d[c], key.v)
      [] kind[c] = "chain" -> ChainCallGetRaw(c, Len(kids[c]), key, d)
      [] kind[c] = "prefixed" ->
           IF key = None THEN Err("TypeError")
           ELSE CallGetRaw(kids[c][1], StrV(prefix[c] \o key.v), d)
      [] kind[c] = "reload" -> CallGetRaw(kids[c][1], key, d)

\* get_value(key, type, default) of config c, the key being None or a string.
RECURSIVE CallGetValue(_, _, _, _, _)
\* ChainConfig.get_value's loop, an exception of a child leaving the loop.
RECURSIVE ChainCallGetValue(_, _, _, _, _, _)
ChainCallGetValue(c, i, key, type, default, d) ==
    IF i = 0 THEN EvalDefault(default)
    ELSE LET value == CallGetValue(kids[c][i], key, type, None, d)
         IN  IF value # None THEN value
             ELSE ChainCallGetValue(c, i - 1, key, type, default, d)
CallGetValue(c, key, type, default, d) ==
    CASE kind[c] \in DataKinds ->
           IF key = None THEN Err("TypeError")
           ELSE BaseGetValue(c, key.v, type, default, d)
      [] kind[c] = "chain" -> ChainCallGetValue(c, Len(kids[c]), key, type, default, d)
      [] kind[c] = "prefixed" ->
           IF key = None THEN Err("TypeError")
           ELSE CallGetValue(kids[c][1], StrV(prefix[c] \o key.v), type, default, d)
      [] kind[c] = "reload" -> CallGetValue(kids[c][1], key, type, default, d)

\* n MemoryConfigs under a ChainConfig (object n + 1), a PrefixedConfig over
\* the chain (n + 2) and a ReloadConfig over the chain (n + 3).
NullKeyHeap(ds) ==
    LET n == Len(ds)
        chain == ChainInit(WithMemories(EmptyHeap(n + 3), ds, 1), n + 1,
                           [i \in 1..n |-> i])
    IN  ReloadInit(PrefixedInit(chain, n + 2, sa, n + 1), n + 3, n + 1)

NullKeySpecInit ==
    /\ \E n \in 0..MaxKids : \E ds \in [1..n -> ChainData] : HeapIs(NullKeyHeap(ds))
    /\ fired = [c \in DOMAIN kind |-> 0]
    /\ stats = NoStats
    /\ op = NoOp
    /\ rd = NoReader

CallKeys == {None} \cup {StrV(k) : k \in {sx, sb}}

\* config.get_raw(key)
NullKeyGetRaw ==
    \E c \in DOMAIN kind : \E key \in CallKeys :
        /\ op = NoOp
        /\ op' = [name |-> "get_raw", c |-> c, key |-> key,
                  result |-> CallGetRaw(c, key, data)]
        /\ UNCHANGED <<heapVars, fired, stats, rd>>

\* config.get_value(key, type, default)
NullKeyGetValue ==
    \E c \in DOMAIN kind : \E key \in CallKeys :
      \E type \in {"object", "int"} : \E default \in {None, IntV(9)} :
        /\ op = NoOp
        /\ op' = [name |-> "get_value", c |-> c, key |-> key, type |-> type,
                  default |-> default,
                  result |-> CallGetValue(c, key, type, default, data)]
        /\ UNCHANGED <<heapVars, fired, stats, rd>>

NullKeyNext == NullKeyGetRaw \/ NullKeyGetValue
SpecNullKey == NullKeySpecInit /\ [][NullKeyNext]_vars

\* C25: get_raw and get_value of every kind of config, a ChainConfig without
\* children included, fail with a TypeError when the key is None.
C25_NullKeyIsInvalidArgument ==
    (op.name \in {"get_raw", "get_value"} /\ op.key = None) =>
        op.result = Err("TypeError")

-----------------------------------------------------------------------------
(* merge_properties on plain dicts as the readers give them.               *)

PropertyScalars == {IntV(1), IntV(2), StrV(sh)}
PropertyNested ==
    {DictV(<<>>), Dict1(sb, IntV(1)), Dict1(sb, StrV(sh)), Dict2(sb, IntV(2), sy, IntV(2))}
PropertyValues == PropertyScalars \cup {None, ListV(<<IntV(1)>>)} \cup PropertyNested
PropertyDicts ==
    {DictV(<<>>)} \cup {Dict1(k, v) : k \in {sx, sy}, v \in PropertyValues}
        \cup {Dict2(sx, v, sy, w) : v \in PropertyValues, w \in PropertyValues}

PropertiesSpecInit ==
    /\ HeapIs(EmptyHeap(0))
    /\ fired = <<>>
    /\ stats = NoStats
    /\ op = NoOp
    /\ rd = NoReader

\* merge_properties(dst, src) for two dicts; result is what dst has become.
PropertiesMerge ==
    \E dst \in PropertyDicts : \E src \in PropertyDicts :
        /\ op = NoOp
        /\ op' = [name |-> "merge_properties", dst |-> dst, src |-> src,
                  result |-> merge_properties(dst, src)]
        /\ UNCHANGED <<heapVars, fired, stats, rd>>

SpecProperties == PropertiesSpecInit /\ [][PropertiesMerge]_vars

\* Two dicts have the same keys and, recursively, the same values.
RECURSIVE SameDict(_, _)
SameDict(a, b) ==
    /\ MapKeys(a) = MapKeys(b)
    /\ \A k \in MapKeys(a) :
          LET v == MapGet(a, k)
              w == MapGet(b, k)
          IN  IF v.t = "dict" /\ w.t = "dict" THEN SameDict(v, w) ELSE v = w

\* merged is dst after merge_properties(dst, src) as the rule of the layering
\* states it; two values of which neither is absent are of one sort when
\* their kinds of container are equal (byKind) or when their types are.
RECURSIVE Layered(_, _, _, _)
Layered(merged, dst, src, byKind) ==
    IF MapKeys(dst) = {} THEN SameDict(merged, src)
    ELSE /\ MapKeys(merged) = MapKeys(dst) \cup MapKeys(src)
         /\ \A k \in MapKeys(dst) \ MapKeys(src) : MapGet(merged, k) = MapGet(dst, k)
         /\ \A k \in MapKeys(src) :
               LET d == MapGet(dst, k)
                   s == MapGet(src, k)
                   m == MapGet(merged, k)
                   same == IF byKind THEN ContainerKind(s) = ContainerKind(d)
                           ELSE s.t = d.t
               IN  IF s = None \/ d = None THEN m = s
                   ELSE IF ~same THEN m = d
                   ELSE IF d.t = "dict" THEN m.t = "dict" /\ Layered(m, d, s, byKind)
                   ELSE m = s

\* C26 as stated: dst adopts src when empty; otherwise per key of src an
\* absent value on either side gives src's value, values of different kinds
\* of container (map, scalar, list) leave dst's value, two maps are merged
\* recursively, and two values of one kind, two scalars of any types
\* included, give src's value; the other keys of dst are unchanged.
C26_SameKindTakesSource ==
    op.name = "merge_properties" => Layered(op.result, op.dst, op.src, TRUE)

\* C26: as above, with dst keeping its value whenever the two values differ
\* in type (an int against a str included), and src's value taken only for
\* two values of one type.
C26_SameTypeTakesSource ==
    op.name = "merge_properties" => Layered(op.result, op.dst, op.src, FALSE)

\* An int met a str under one key and a nested dict was merged under another.
C26_Witness ==
    /\ op.name = "merge_properties"
    /\ MapGet(op.dst, sx) = IntV(1) /\ MapGet(op.src, sx) = StrV(sh)
    /\ MapGet(op.dst, sy) = Dict1(sb, IntV(1))
    /\ MapGet(op.src, sy) = Dict2(sb, IntV(2), sy, IntV(2))
    /\ MapGet(op.result, sx) = IntV(1)
    /\ SameDict(MapGet(op.result, sy), Dict2(sb, IntV(2), sy, IntV(2)))

-----------------------------------------------------------------------------
(* FileConfig.load over names with directories.  stats.files is the set of *)
(* paths at which a file exists and stats.next gives, by the last          *)
(* character of a file's path, the '@next' of its content.                 *)

pf == <<"f">>
pdf == <<"d", "/", "f">>
pg == <<"g">>
peg == <<"e", "/", "g">>
pdg == <<"d", "/", "g">>
pdeg == <<"d", "/", "e", "/", "g">>
ph == <<"h">>
peh == <<"e", "/", "h">>
pdh == <<"d", "/", "h">>
pdeh == <<"d", "/", "e", "/", "h">>
FsPaths == {pf, pdf, pg, peg, pdg, pdeg, ph, peh, pdh, pdeh}

\* os.path.dirname(p) of a relative path: what comes before the last slash.
Dirname(p) == IF LastIndexOf(p, "/") = 0 THEN <<>> ELSE SubSeq(p, 1, LastIndexOf(p, "/") - 1)

\* os.path.join(path, filename)
PathJoin(path, filename) ==
    IF filename # <<>> /\ Head(filename) = "/" THEN filename
    ELSE IF path = <<>> \/ path[Len(path)] = "/" THEN path \o filename
    ELSE path \o <<"/">> \o filename

\* The first name FileConfig._find_file tries: joined to the search path when
\* there is one.  The names hold no reference to resolve.
Candidate(filename, paths) ==
    IF Len(paths) > 0 THEN PathJoin(paths[1], filename) ELSE filename

\* The search paths for the next hop: the directory of the name as it was
\* given, when that is not empty.
NextPaths(filename, paths) ==
    IF Dirname(filename) # <<>> THEN <<Dirname(filename)>> ELSE paths

\* The while loop of FileConfig.load: tried are the candidates of the hops so
\* far, names the names as given, to_merge the mappings read.
RECURSIVE PathHops(_, _, _, _, _, _)
PathHops(filename, paths, fs, tried, names, to_merge) ==
    IF ~Truthy(filename)
    THEN [raised |-> FALSE, tried |-> tried, names |-> names, to_merge |-> to_merge]
    ELSE IF Candidate(filename.v, paths) \notin fs.files
    THEN [raised |-> TRUE, tried |-> Append(tried, Candidate(filename.v, paths)),
          names |-> Append(names, filename.v), to_merge |-> to_merge]
    ELSE PathHops(fs.next[Candidate(filename.v, paths)[Len(Candidate(filename.v, paths))]],
                  IF fs.next[Candidate(filename.v, paths)[Len(Candidate(filename.v, paths))]] # None
                  THEN NextPaths(filename.v, paths) ELSE paths,
                  fs,
                  Append(tried, Candidate(filename.v, paths)),
                  Append(names, filename.v),
                  Append(to_merge, MapV(F1(<<filename.v[Len(filename.v)]>>,
                                           StrV(Candidate(filename.v, paths))))))

PathSpecInit ==
    /\ HeapIs(BaseInit(EmptyHeap(1), 1, "file"))
    /\ fired = <<0>>
    /\ \E files \in SUBSET FsPaths :
         \E fnext \in {None, StrV(pg), StrV(peg)} : \E gnext \in {None, StrV(ph), StrV(peh)} :
          stats = [files |-> files, next |-> [f |-> fnext, g |-> gnext, h |-> None]]
    /\ op = NoOp
    /\ rd = NoReader

\* FileConfig(filename).load(): the loop, then the merge and the assignment.
PathLoaded(filename, r) ==
    /\ data' = IF r.raised THEN data
               ELSE [data EXCEPT ![1] = merge_dict(Head(r.to_merge), Tail(r.to_merge))]
    /\ op' = [name |-> "load", filename |-> filename, raised |-> r.raised,
              tried |-> r.tried, names |-> r.names]
    /\ UNCHANGED <<kind, kids, prefix, lookup, callbacks, serial, loaded, fired, stats, rd>>
PathLoad ==
    \E filename \in {pf, pdf} :
        /\ op = NoOp
        /\ PathLoaded(filename, PathHops(StrV(filename), <<>>, stats, <<>>, <<>>, <<>>))

SpecPaths == PathSpecInit /\ [][PathLoad]_vars

\* C27: at every hop after the first, the file looked for is the name the
\* previous file gave, taken relative to the directory in which the previous
\* file was found.
C27_NextRelativeToFoundDirectory ==
    op.name = "load" =>
        \A i \in 2..Len(op.tried) :
            op.tried[i] = PathJoin(Dirname(op.tried[i - 1]), op.names[i])

-----------------------------------------------------------------------------
(* MergeConfig with callbacks on its updated event.  stats.loads counts    *)
(* the calls of merge.load(), up to one.                                   *)

ObservedSpecInit ==
    /\ \E n \in 1..MaxKids : \E ds \in [1..n -> MergeData] : HeapIs(MergeOver(ds))
    /\ fired = [c \in DOMAIN kind |-> 0]
    /\ stats = [loads |-> 0]
    /\ op = NoOp
    /\ rd = NoReader

\* merge.on_updated(func), func reading merge.get_raw(key) when it is called.
ObservedOnUpdated == \E c \in DOMAIN kind : kind[c] = "merge" /\ OnUpdated(c, TRUE)

\* merge.load()
ObservedLoad ==
    \E c \in DOMAIN kind :
        /\ kind[c] = "merge"
        /\ data' = MergeLoad(c, data)
        /\ stats' = [loads |-> 1]
        /\ op' = [name |-> "load", c |-> c, raised |-> FALSE]
        /\ UNCHANGED <<kind, kids, prefix, lookup, callbacks, serial, loaded, fired, rd>>

\* child.set(key, value)
ObservedSet == MemorySetStep(MergeSetKeys, {IntV(2), IntV(3)})

ObservedNext == ObservedOnUpdated \/ ObservedLoad \/ ObservedSet
SpecObserved == ObservedSpecInit /\ [][ObservedNext]_vars

\* C29: once the merge has been loaded, a callback of the merge's event that
\* runs because a child's set(k, v) made the merge re-fire reads, with
\* merge.get_raw(k), the value of k in the merge of the children's data as
\* they are then.
C29_SubscriberSeesCurrentMerge ==
    (op.name = "set" /\ stats.loads > 0) =>
        \A i \in DOMAIN op.seen :
            kind[op.seen[i].at] = "merge" =>
                op.seen[i].value =
                    BaseGetRaw(DeepMergeKids(op.seen[i].at, Len(kids[op.seen[i].at])), op.key)

-----------------------------------------------------------------------------
(* Two threads in ReloadConfig.load of one instance.  rd.pc[t] is the      *)
(* statement thread t is at; stats.scheduleCalls counts the calls of       *)
(* scheduler.schedule.                                                     *)

Threads == 1..2

ThreadsSpecInit ==
    /\ HeapIs(ReloadOver)
    /\ fired = [c \in DOMAIN kind |-> 0]
    /\ stats = [scheduleCalls |-> 0]
    /\ op = NoOp
    /\ rd = [pc |-> [t \in Threads |-> "idle"]]

\* What the delegate's file holds at the time of a load.
ThreadsStores ==
    {[z \in {sf} |-> first] :
        first \in {Missing, Parsed(Dict1(sx, IntV(1)), None, TRUE),
                   Parsed(Dict1(sx, IntV(2)), None, TRUE)}}

\* Thread t calls reload.load().
ThreadsCall(t) ==
    /\ rd.pc[t] = "idle"
    /\ rd' = [rd EXCEPT !.pc[t] = "config_load"]
    /\ UNCHANGED <<heapVars, fired, stats, op>>

\* self._config.load(): an exception of the delegate leaves load().
ThreadsDelegated(t, r) ==
    /\ ~r.diverged
    /\ data' = r.data
    /\ rd' = [rd EXCEPT !.pc[t] = IF r.raised THEN "idle" ELSE "if_not_loaded"]
    /\ op' = [name |-> "config_load", thread |-> t, raised |-> r.raised]
    /\ UNCHANGED <<kind, kids, prefix, lookup, callbacks, serial, loaded, fired, stats>>
ThreadsDelegate(t) ==
    /\ rd.pc[t] = "config_load"
    /\ \E store \in ThreadsStores : ThreadsDelegated(t, Load(1, store, <<>>, data))

\* if not self._loaded:
ThreadsTest(t) ==
    /\ rd.pc[t] = "if_not_loaded"
    /\ rd' = [rd EXCEPT !.pc[t] = IF loaded[2] THEN "idle" ELSE "schedule"]
    /\ UNCHANGED <<heapVars, fired, stats, op>>

\* self._scheduler.schedule(self._reload)
ThreadsSchedule(t) ==
    /\ rd.pc[t] = "schedule"
    /\ stats' = [scheduleCalls |-> stats.scheduleCalls + 1]
    /\ rd' = [rd EXCEPT !.pc[t] = "set_loaded"]
    /\ op' = [name |-> "schedule", thread |-> t]
    /\ UNCHANGED <<heapVars, fired>>

\* self._loaded = True
ThreadsMark(t) ==
    /\ rd.pc[t] = "set_loaded"
    /\ loaded' = [loaded EXCEPT ![2] = TRUE]
    /\ rd' = [rd EXCEPT !.pc[t] = "idle"]
    /\ UNCHANGED <<kind, kids, prefix, data, lookup, callbacks, serial, fired, stats, op>>

ThreadsNext ==
    \E t \in Threads :
        \/ ThreadsCall(t)
        \/ ThreadsDelegate(t)
        \/ ThreadsTest(t)
        \/ ThreadsSchedule(t)
        \/ ThreadsMark(t)

SpecThreads == ThreadsSpecInit /\ [][ThreadsNext]_vars

\* C30: however the statements of two threads in load() of one ReloadConfig
\* interleave, scheduler.schedule is called at most once.
C30_ScheduledAtMostOnce == stats.scheduleCalls <= 1

-----------------------------------------------------------------------------
(* The hop loops of FileConfig.load, UrlConfig.load and S3Config._read,    *)
(* one pass per step.  stats.store is what the names f and g hold; rd      *)
(* holds the position of the call: the name to read next, the mappings     *)
(* read, the parity of the number of passes made, and for S3Config the     *)
(* depth of the recursion.                                                 *)

\* The depth at which the interpreter ends a recursion with RecursionError.
RecursionLimit == 4

CycleStores ==
    {[z \in {sf, sg} |-> IF z = sf THEN first ELSE second] :
        first \in {Missing} \cup
            {Parsed(Dict1(sx, IntV(1)), n, TRUE) : n \in {None, StrV(sf), StrV(sg)}},
        second \in {Missing} \cup
            {Parsed(Dict1(sy, IntV(2)), n, TRUE) : n \in {None, StrV(sf), StrV(sg), StrV(sh)}}}

CycleSpecInit ==
    /\ \E k \in {"file", "url", "s3"} : HeapIs(BaseInit(EmptyHeap(1), 1, k))
    /\ fired = <<0>>
    /\ \E store \in CycleStores : stats = [store |-> store]
    /\ op = NoOp
    /\ rd = NoReader

\* to_merge.append(m).  A list longer than MaxHops keeps its last MaxHops
\* items here: every chain of names that ends is shorter, so the list a
\* merge reads is whole.
Appended(to_merge, m) ==
    IF Len(to_merge) < MaxHops THEN Append(to_merge, m) ELSE Append(Tail(to_merge), m)

\* config.load() is called: the locals before the loop.
CycleCall ==
    /\ rd.pc = "idle"
    /\ rd' = [pc |-> "loop", filename |-> StrV(sf), depth |-> 1, passes |-> 0,
              to_merge |-> IF kind[1] = "s3" THEN DictV(<<>>) ELSE <<>>]
    /\ op' = [name |-> "call"]
    /\ UNCHANGED <<heapVars, fired, stats>>

\* One pass of the body of `while filename:` in FileConfig.load, file being
\* what _find_file gave and parsed what the reader gave.
FilePass(file, parsed) ==
    IF IsErr(file) \/ file = None THEN [rd EXCEPT !.pc = "raised"]
    ELSE IF parsed.t = "unreadable" \/ ~parsed.ignorecase THEN [rd EXCEPT !.pc = "raised"]
    ELSE IF parsed.next # None /\ ~IsStr(parsed.next) THEN [rd EXCEPT !.pc = "raised"]
    ELSE [rd EXCEPT !.filename = parsed.next,
                    !.to_merge = Appended(@, ReadBody(parsed))]

\* One pass of the body of `while url:` in UrlConfig.load.
UrlPass(resolved, parsed) ==
    IF IsErr(resolved) \/ parsed.t \in {"missing", "unreadable"}
    THEN [rd EXCEPT !.pc = "raised"]
    ELSE [rd EXCEPT !.filename = parsed.next,
                    !.to_merge = Appended(@, ReadBody(parsed)),
                    !.pc = IF Truthy(parsed.next) /\ ~IsStr(parsed.next)
                           THEN "raised" ELSE "loop"]

\* One call of S3Config._read up to its recursive call, next_filename being
\* the '@next' resolved: the call that finds no '@next' returns through
\* every frame, and a call deeper than the limit raises RecursionError.
S3Pass(parsed, folded, next_filename) ==
    IF parsed.t \in {"missing", "unreadable"} THEN [rd EXCEPT !.pc = "raised"]
    ELSE IF ~Truthy(parsed.next) THEN [rd EXCEPT !.pc = "returned", !.to_merge = folded]
    ELSE IF ~IsStr(parsed.next) \/ IsErr(next_filename) THEN [rd EXCEPT !.pc = "raised"]
    ELSE IF rd.depth >= RecursionLimit THEN [rd EXCEPT !.pc = "raised"]
    ELSE [rd EXCEPT !.filename = next_filename, !.to_merge = folded, !.depth = @ + 1]

\* The pass of config 1's loop from the position rd.
CyclePass ==
    CASE kind[1] = "file" ->
           FilePass(FindFile(1, stats.store, rd.filename.v, data),
                    Stored(stats.store, rd.filename.v))
      [] kind[1] = "url" ->
           UrlPass(Resolve(rd.filename.v, NameLookup(1), data, MaxFuel),
                   Stored(stats.store, rd.filename.v))
      [] kind[1] = "s3" ->
           S3Pass(Stored(stats.store, rd.filename.v),
                  IF Stored(stats.store, rd.filename.v).t = "parsed"
                  THEN Transform(rd.to_merge, ReadBody(Stored(stats.store, rd.filename.v)))
                  ELSE rd.to_merge,
                  IF Stored(stats.store, rd.filename.v).t = "parsed"
                     /\ IsStr(Stored(stats.store, rd.filename.v).next)
                  THEN Resolve(Stored(stats.store, rd.filename.v).next.v, lookup[1],
                               data, MaxFuel)
                  ELSE None)

\* The loop is entered with a name that is truthy.  S3Config.load assigns
\* self._data when the outermost _read has returned.
CycleHop ==
    /\ rd.pc = "loop"
    /\ Truthy(rd.filename)
    /\ rd' = [CyclePass EXCEPT !.passes = (@ + 1) % 2]
    /\ data' = IF CyclePass.pc = "returned" THEN [data EXCEPT ![1] = CyclePass.to_merge]
               ELSE data
    /\ op' = [name |-> "hop", read |-> rd.filename]
    /\ UNCHANGED <<kind, kids, prefix, lookup, callbacks, serial, loaded, fired, stats>>

\* The loop of FileConfig.load or UrlConfig.load has ended: the merge and the
\* assignment of self._data.
CycleEnd ==
    /\ rd.pc = "loop"
    /\ ~Truthy(rd.filename)
    /\ rd' = [rd EXCEPT !.pc = IF Head(rd.to_merge).t # "map" THEN "raised" ELSE "returned"]
    /\ data' = IF Head(rd.to_merge).t # "map" THEN data
               ELSE [data EXCEPT ![1] = merge_dict(Head(rd.to_merge), Tail(rd.to_merge))]
    /\ op' = [name |-> "end"]
    /\ UNCHANGED <<kind, kids, prefix, lookup, callbacks, serial, loaded, fired, stats>>

CycleNext == CycleCall \/ CycleHop \/ CycleEnd

\* A thread that is in load() goes on running.
SpecCycle == CycleSpecInit /\ [][CycleNext]_vars /\ WF_vars(CycleNext)

\* C31: load() of a FileConfig, a UrlConfig or an S3Config returns or raises
\* whatever the files hold, '@next' references that form a cycle included.
C31_LoadTerminates == <>(rd.pc \in {"returned", "raised"})

-----------------------------------------------------------------------------
(* An EventHandler whose callbacks add and remove callbacks of the same    *)
(* handler while it is being invoked.                                      *)

\* A callable that, when called, does nothing, removes itself, removes the
\* callable target, or adds the callable target to the handler.
Subscriber(id, does, target) ==
    [type |-> "subscriber", id |-> id, does |-> does, target |-> target]
Quiet(id) == Subscriber(id, "nothing", None)
Late == Quiet(9)
Subscribers ==
    {Quiet(1), Quiet(2), Subscriber(3, "remove_self", None),
     Subscriber(4, "remove", Quiet(1)), Subscriber(5, "add", Late)}

\* The body of callback cb runs, the list of the handler being cbs:
\* handler.remove raises ValueError for a callable that is not in the list.
Effect(cb, cbs) ==
    CASE cb.does = "nothing" -> [cbs |-> cbs, raised |-> FALSE]
      [] cb.does = "remove_self" -> [cbs |-> ListRemove(cbs, cb), raised |-> FALSE]
      [] cb.does = "remove" ->
           IF \A i \in DOMAIN cbs : cbs[i] # cb.target THEN [cbs |-> cbs, raised |-> TRUE]
           ELSE [cbs |-> ListRemove(cbs, cb.target), raised |-> FALSE]
      [] cb.does = "add" -> [cbs |-> Append(cbs, cb.target), raised |-> FALSE]

\* EventHandler.__call__: the comprehension iterates self._callbacks itself,
\* by index, so it reads the list as the callbacks called so far left it.
RECURSIVE Invoke(_, _, _)
Invoked(after, i, calls) ==
    IF after.raised THEN [cbs |-> after.cbs, calls |-> calls, raised |-> TRUE]
    ELSE Invoke(after.cbs, i + 1, calls)
Invoke(cbs, i, calls) ==
    IF i > Len(cbs) THEN [cbs |-> cbs, calls |-> calls, raised |-> FALSE]
    ELSE Invoked(Effect(cbs[i], cbs), i, Append(calls, cbs[i]))

MutatingSpecInit ==
    /\ HeapIs(EmptyHeap(1))
    /\ fired = <<0>>
    /\ stats = NoStats
    /\ op = NoOp
    /\ rd = NoReader

\* handler.add(callback) for a callable that is not yet in the list.
MutatingAdd ==
    \E cb \in Subscribers :
        /\ Len(callbacks[1]) < MaxCallbacks
        /\ \A i \in DOMAIN callbacks[1] : callbacks[1][i] # cb
        /\ callbacks' = [callbacks EXCEPT ![1] = Append(@, cb)]
        /\ op' = [name |-> "add", cb |-> cb]
        /\ UNCHANGED <<kind, kids, prefix, data, lookup, serial, loaded, fired, stats, rd>>

\* handler()
MutatingCalled(r) ==
    /\ callbacks' = [callbacks EXCEPT ![1] = r.cbs]
    /\ op' = [name |-> "call", before |-> callbacks[1], calls |-> r.calls,
              raised |-> r.raised]
    /\ UNCHANGED <<kind, kids, prefix, data, lookup, serial, loaded, fired, stats, rd>>
MutatingCall ==
    /\ Len(callbacks[1]) <= MaxCallbacks
    /\ MutatingCalled(Invoke(callbacks[1], 1, <<>>))

MutatingNext == MutatingAdd \/ MutatingCall
SpecMutating == MutatingSpecInit /\ [][MutatingNext]_vars

\* C32: in an invocation that no callback ends by raising, every callback
\* that was in the list when the invocation started is called exactly once,
\* whatever the callbacks add to or remove from the list meanwhile.
C32_EveryStartingCallbackCalledOnce ==
    (op.name = "call" /\ ~op.raised) =>
        \A i \in DOMAIN op.before :
            Cardinality({j \in DOMAIN op.calls : op.calls[j] = op.before[i]}) = 1

-----------------------------------------------------------------------------
(* merge_properties on dict objects.  stats.objects maps the identity of a *)
(* dict to its items; a value that is a dict is a reference to an object,  *)
(* so two dicts can hold the same nested dict.  stats.original keeps the   *)
(* objects as they were constructed.                                       *)

Ref(id) == [t |-> "dict", id |-> id]
ObjGet(items, key) == IF key \in DOMAIN items THEN items[key] ELSE None
ObjSet(items, key, value) ==
    [k \in DOMAIN items \cup {key} |-> IF k = key THEN value ELSE items[k]]

\* merge_properties(dst, src) on the objects o, dst and src being
\* identities: the objects it leaves.
RECURSIVE MergeObjects(_, _, _)
\* The loop over src.keys(), todo being the keys to come.
RECURSIVE MergeObjectKeys(_, _, _, _)
MergeObjectKeys(o, dst, src, todo) ==
    IF todo = {} THEN o
    ELSE LET key == CHOOSE k \in todo : TRUE
             dst_value == ObjGet(o[dst], key)
             src_value == ObjGet(o[src], key)
             next == IF src_value = None \/ dst_value = None
                     THEN [o EXCEPT ![dst] = ObjSet(@, key, src_value)]
                     ELSE IF src_value.t # dst_value.t THEN o
                     ELSE IF dst_value.t = "dict"
                          THEN MergeObjects(o, dst_value.id, src_value.id)
                          ELSE [o EXCEPT ![dst] = ObjSet(@, key, src_value)]
         IN  MergeObjectKeys(next, dst, src, todo \ {key})
MergeObjects(o, dst, src) ==
    IF DOMAIN o[dst] = {}
    \* dst.update(src): every item of src, nested dicts by reference
    THEN [o EXCEPT ![dst] = o[src]]
    ELSE MergeObjectKeys(o, dst, src, DOMAIN o[src])

\* dst is object 1; the first source is object 2 with the nested dict 3, the
\* second source object 4 with the nested dict 5; 6 is a dict nested in dst.
ObjectsInits ==
    {[id \in 1..6 |->
        CASE id = 1 -> dst [] id = 2 -> src1 [] id = 3 -> in1
          [] id = 4 -> src2 [] id = 5 -> in2 [] id = 6 -> F1(sb, IntV(0))] :
        dst \in {EmptyF, F1(sy, IntV(0)), F1(sx, Ref(6))},
        src1 \in {F1(sx, Ref(3)), F1(sx, IntV(1)), F2(sx, Ref(3), sy, IntV(1))},
        in1 \in {F1(sb, IntV(1)), F2(sb, IntV(1), sy, IntV(1))},
        src2 \in {F1(sx, Ref(5)), F1(sx, IntV(2)), F1(sy, Ref(5))},
        in2 \in {F1(sb, IntV(2)), F1(sy, IntV(3))}}

ObjectsSpecInit ==
    /\ HeapIs(EmptyHeap(0))
    /\ fired = <<>>
    /\ \E o \in ObjectsInits : stats = [objects |-> o, original |-> o]
    /\ op = NoOp
    /\ rd = NoReader

\* merge_properties(dst, src) with one of the two sources.
ObjectsMerge ==
    \E src \in {2, 4} :
        /\ stats' = [stats EXCEPT !.objects = MergeObjects(@, 1, src)]
        /\ op' = [name |-> "merge_properties", src |-> src]
        /\ UNCHANGED <<heapVars, fired, rd>>

SpecObjects == ObjectsSpecInit /\ [][ObjectsMerge]_vars

\* C33: after any merges into dst, the sources and the dicts nested in them
\* are as they were constructed.
C33_SourcesUnchanged ==
    op.name = "merge_properties" =>
        \A id \in {2, 3, 4, 5} : stats.objects[id] = stats.original[id]

-----------------------------------------------------------------------------
(* The constructors of ChainConfig and MergeConfig with arguments that    *)
(* are not all Configs.  An argument is the identity of a config, or       *)
(* NotConfig for an object of another class.                               *)

MaxConfigs == 3
NotConfig == 0

\* The loop of ChainConfig.__init__ and MergeConfig.__init__ over configs
\* with its isinstance test: the heap it leaves and whether it raised.
RECURSIVE AdoptEach(_, _, _, _)
AdoptEach(h, c, configs, i) ==
    IF i > Len(configs) THEN [heap |-> [h EXCEPT !.kids[c] = configs], raised |-> FALSE]
    ELSE IF configs[i] = NotConfig THEN [heap |-> h, raised |-> TRUE]
    ELSE AdoptEach(Adopt(h, c, <<configs[i]>>, 1), c, configs, i + 1)

\* Two MemoryConfigs, objects 1 and 2; object 3 is the composite to come.
ConstructSpecInit ==
    /\ \E ds \in [1..2 -> {DictV(<<>>), Dict1(sx, IntV(1))}] :
          HeapIs(WithMemories(EmptyHeap(3), ds, 1))
    /\ fired = [c \in 1..3 |-> 0]
    /\ stats = NoStats
    /\ op = NoOp
    /\ rd = NoReader

ConfigLists == UNION {[1..n -> {1, 2, NotConfig}] : n \in 0..MaxConfigs}

\* ChainConfig(*configs) or MergeConfig(*configs)
Constructing(k, configs, r) ==
    /\ HeapBecomes(r.heap)
    /\ op' = [name |-> "init", class |-> k, configs |-> configs, raised |-> r.raised,
              lookup |-> lookup, callbacks |-> callbacks]
    /\ UNCHANGED <<fired, stats, rd>>
Construct ==
    \E k \in {"chain", "merge"} : \E configs \in ConfigLists :
        /\ op = NoOp
        /\ Constructing(k, configs, AdoptEach(BaseInit(Heap, 3, k), 3, configs, 1))

SpecConstruct == ConstructSpecInit /\ [][Construct]_vars

\* C34: a constructor that raised TypeError for an argument that is not a
\* Config has left every Config of the list with the lookup and the
\* callbacks it had before.
C34_FailedConstructorLeavesConfigs ==
    (op.name = "init" /\ op.raised) =>
        \A c \in 1..2 : lookup[c] = op.lookup[c] /\ callbacks[c] = op.callbacks[c]

-----------------------------------------------------------------------------
(* len() of a PrefixedConfig beside its iteration.                         *)

\* What the loop of PrefixedConfig.__len__ adds to length for one key of the
\* delegate, value being self._config.get(key).
PrefixedLenKey(c, key, value) ==
    IF key = RStripDelimiter(prefix[c])
    THEN IF IsMapping(value) THEN Cardinality(MapKeys(value)) ELSE 0
    ELSE IF StartsWith(key, prefix[c]) THEN 1 ELSE 0

\* The loop of PrefixedConfig.__len__ over the keys of the delegate still to
\* come, bare being the delegate's value under the bare prefix.
RECURSIVE PrefixedLenKeys(_, _, _, _)
PrefixedLenKeys(c, todo, bare, length) ==
    IF todo = {} THEN IntV(length)
    ELSE LET key == CHOOSE k \in todo : TRUE
         IN  PrefixedLenKeys(c, todo \ {key}, bare, length + PrefixedLenKey(c, key, bare))

\* PrefixedConfig.__len__: the get of the bare prefix may raise.
PrefixedLength(c, d) ==
    LET bare == GetValue(kids[c][1], RStripDelimiter(prefix[c]), "object", None, d)
    IN  IF RStripDelimiter(prefix[c]) \in Iterate(kids[c][1], d) /\ IsErr(bare)
        THEN bare
        ELSE PrefixedLenKeys(c, Iterate(kids[c][1], d), bare, 0)

\* len(view)
PrefixedLen ==
    /\ op' = [name |-> "len", c |-> 2, key |-> <<>>, result |-> PrefixedLength(2, data)]
    /\ UNCHANGED <<heapVars, fired, stats, rd>>

PrefixedLenNext == PrefixedIter \/ PrefixedLen
SpecPrefixedLen == PrefixedSpecInit /\ [][PrefixedLenNext]_vars

\* C35: len(view) is the number of distinct keys an iteration of the view
\* gives, whatever the delegate holds.
C35_LenIsNumberOfKeys ==
    (op.name = "len" /\ ~IsErr(op.result)) =>
        op.result = IntV(Cardinality(PrefixedIterate(2, data).v))

\* C36: after a load() that raised nothing, no key of the backing data is
\* the empty string.
C36_NoEmptyKeyStored ==
    (op.name = "load" /\ ~op.raised) => \A key \in MapKeys(data[1]) : key # <<>>

====
